---- MODULE Spec2Model ----
(***************************************************************************)
(* A model of the usid identifier generator (generator.go, usid.go).       *)
(*                                                                         *)
(* 64-bit machine words are modelled WordBits wide (two's complement), the *)
(* default 6/6 node/sequence layout is modelled DefaultNodeBits /          *)
(* DefaultSeqBits wide, and the wall clock is a variable that any step may *)
(* move forward or backward.                                               *)
(***************************************************************************)
EXTENDS Integers, Sequences, FiniteSets, Bags, TLC

(***************************************************************************)
(* Bounds of the model.                                                    *)
(***************************************************************************)
WordBytes == 2
DefaultNodeBits == 1
DefaultSeqBits == 2
Epoch == 2
MaxClock == 1
NumThreads == 2
MaxGenerators == 2
MaxIssued == 2
MaxSample == 12
MaxStamp == 3
MaxMigrations == 3

WordBits == 8 * WordBytes
Threads == 1 .. NumThreads
\* readings of time.Now().UnixMicro()
ClockRange == Epoch .. (Epoch + MaxClock)

VARIABLES
    NodeBits,          \* generator.go: var NodeBits uint8
    SeqBits,           \* generator.go: var SeqBits uint8
    DefaultGenerator,  \* generator.go: var DefaultGenerator (index into gens)
    gens,              \* the Generator objects allocated so far
    clock,             \* the value time.Now().UnixMicro() returns now
    pc,                \* per call: "idle", "read", "load" or "cas"
    tg,                \* per call: the Generator it runs on (0 when idle)
    now,               \* per call: local now
    old,               \* per call: local old
    panicked,          \* << >>, or <<node>> once NewGenerator(node) has panicked
    issued,            \* observer: the bag of identifiers returned so far
    last,              \* observer: per Generator, the latest identifier returned
    seen,              \* observer: per call, the swaps done on its Generator at its load
    DefaultFormat,     \* generator.go: var DefaultFormat Format
    DefaultObfuscator, \* obfuscator.go: var DefaultObfuscator, << >> (nil) or <<key>>
    uid,               \* an ID value the program holds
    format,            \* the Format it was last formatted in
    text,              \* the text Format returned
    result,            \* what the Parse function returned: [id, err]
    stage,             \* "start", then the operation called last
    out,               \* what the last method called on uid returned
    prev,              \* what the call before it returned
    nullid,            \* a NullID value the program holds: [ID, Valid]
    reply,             \* what the last method called on nullid returned
    db,                \* postgres: the config row, the functions installed
    migrated,          \* postgres: what the last Migrate call was given and returned
    wins,              \* observer: parity of the number of calls that have returned
    lastReader,        \* observer: the call that read the clock most recently
    spun               \* observer: per Generator, an iteration found the sequence
                       \* exhausted and no clock reading after its own exceeded
                       \* oldTime

configVars == <<NodeBits, SeqBits, DefaultGenerator>>
callVars == <<pc, tg, now, old, seen, lastReader>>
histVars == <<issued, last, spun, wins>>
genVars == <<NodeBits, SeqBits, DefaultGenerator, gens, clock, pc, tg, now, old,
             panicked, issued, last, seen, lastReader, spun, wins>>
valueVars == <<out, prev>>
nullVars == <<nullid, reply>>
dbVars == <<db, migrated>>
codecVars == <<DefaultFormat, DefaultObfuscator, uid, format, text, result, stage,
               out, prev, nullid, reply, db, migrated>>
vars == <<NodeBits, SeqBits, DefaultGenerator, gens, clock, pc, tg, now, old,
          panicked, issued, last, seen, lastReader, spun, wins,
          DefaultFormat, DefaultObfuscator, uid, format, text, result, stage,
          out, prev, nullid, reply, db, migrated>>

(***************************************************************************)
(* Machine arithmetic on WordBits-wide words.                              *)
(***************************************************************************)
Pow2(n) == 2 ^ n

\* the unsigned value of a word (Go: uint64(x))
Uint64(x) == x % Pow2(WordBits)

\* the signed value of a word (Go: int64(x))
Int64(x) == LET u == x % Pow2(WordBits)
            IN  IF u >= Pow2(WordBits - 1) THEN u - Pow2(WordBits) ELSE u

\* x << n on int64
Shl(x, n) == Int64(x * Pow2(n))

\* x >> n on int64 (arithmetic shift)
Shr(x, n) == x \div Pow2(n)

RECURSIVE OrBits(_, _, _)
OrBits(a, b, n) ==
    IF n = 0 THEN 0
    ELSE (IF (a % 2 = 1) \/ (b % 2 = 1) THEN 1 ELSE 0)
         + 2 * OrBits(a \div 2, b \div 2, n - 1)

RECURSIVE AndBits(_, _, _)
AndBits(a, b, n) ==
    IF n = 0 THEN 0
    ELSE (IF (a % 2 = 1) /\ (b % 2 = 1) THEN 1 ELSE 0)
         + 2 * AndBits(a \div 2, b \div 2, n - 1)

\* a | b and a & b on uint64
UOr(a, b) == OrBits(Uint64(a), Uint64(b), WordBits)
UAnd(a, b) == AndBits(Uint64(a), Uint64(b), WordBits)

\* a | b and a & b on int64
Or(a, b) == Int64(UOr(a, b))
And(a, b) == Int64(UAnd(a, b))

(***************************************************************************)
(* usid.go: the accessors of an ID, under the ambient NodeBits / SeqBits.  *)
(***************************************************************************)
FieldTime(id, nodeBits, seqBits) == Shr(id, seqBits + nodeBits)
FieldNode(id, nodeBits, seqBits) == And(Shr(id, seqBits), Int64(Pow2(nodeBits) - 1))
FieldSeq(id, seqBits) == And(id, Int64(Pow2(seqBits) - 1))

\* ID.Timestamp: microseconds since the Unix epoch
Timestamp(id) == FieldTime(id, NodeBits, SeqBits) + Epoch
\* the node is not masked
Node_Unmasked(id) == Shr(id, SeqBits)

\* ID.Node
Node(id) == FieldNode(id, NodeBits, SeqBits)
\* ID.Seq (Seq is taken by the Sequences module)
IDSeq(id) == FieldSeq(id, SeqBits)

(***************************************************************************)
(* Text is a sequence of bytes (character codes).  crockford/ and base58/   *)
(* each have an encode and a decode table.                                 *)
(***************************************************************************)
MaxInt64 == Pow2(WordBits - 1) - 1
MinInt64 == - Pow2(WordBits - 1)

RECURSIVE XorBits(_, _, _)
XorBits(a, b, n) ==
    IF n = 0 THEN 0
    ELSE (IF (a % 2) # (b % 2) THEN 1 ELSE 0)
         + 2 * XorBits(a \div 2, b \div 2, n - 1)

\* a ^ b on int64
Xor(a, b) == Int64(XorBits(Uint64(a), Uint64(b), WordBits))

\* the index (from 0) of byte c in table tab, or -1
IndexOf(tab, c) ==
    IF \E i \in 1 .. Len(tab) : tab[i] = c
    THEN (CHOOSE i \in 1 .. Len(tab) : tab[i] = c) - 1
    ELSE -1

\* crockford: var encode = [32]byte{'0', ..., 'z'} without i, l, o, u
crockfordEncode ==
    << 48, 49, 50, 51, 52, 53, 54, 55, 56, 57,
    97, 98, 99, 100, 101, 102, 103, 104, 106, 107,
    109, 110, 112, 113, 114, 115, 116, 118, 119, 120,
    121, 122 >>

\* init() does not map the upper-case letters
crockfordDecode_NoUpper ==
    [c \in 0 .. 127 |->
        IF c \in {73, 105, 76, 108} THEN 1
        ELSE IF c \in {79, 111} THEN 0
        ELSE IF IndexOf(crockfordEncode, c) >= 0 THEN IndexOf(crockfordEncode, c)
        ELSE -1]

\* crockford: var decode [128]int64, as init() fills it
crockfordDecode ==
    [c \in 0 .. 127 |->
        IF c \in {73, 105, 76, 108} THEN 1
        ELSE IF c \in {79, 111} THEN 0
        ELSE IF IndexOf(crockfordEncode, c) >= 0 THEN IndexOf(crockfordEncode, c)
        ELSE IF c + 32 \in 97 .. 122 THEN IndexOf(crockfordEncode, c + 32)
        ELSE -1]

\* crockford.Encode: the loop "for id > 0"
RECURSIVE CrockfordDigits(_)
CrockfordDigits(id) ==
    IF id > 0
    THEN Append(CrockfordDigits(Shr(id, 5)), crockfordEncode[And(id, 31) + 1])
    ELSE << >>

\* crockford.Encode
CrockfordEncode(id) == IF id = 0 THEN <<48>> ELSE CrockfordDigits(id)

\* crockford.Decode: the loop over s[i:], with id the value so far
RECURSIVE CrockfordDecodeFrom(_, _, _)
CrockfordDecodeFrom(s, i, id) ==
    IF i > Len(s) THEN [id |-> id, err |-> "nil"]
    ELSE IF s[i] = 45 THEN CrockfordDecodeFrom(s, i + 1, id)
    ELSE IF s[i] >= 128 THEN [id |-> 0, err |-> "invalid crockford character"]
    ELSE IF crockfordDecode[s[i]] < 0 THEN [id |-> 0, err |-> "invalid crockford character"]
    ELSE CrockfordDecodeFrom(s, i + 1, Or(Shl(id, 5), crockfordDecode[s[i]]))

\* crockford.Decode
CrockfordDecode(s) == CrockfordDecodeFrom(s, 1, 0)

\* base58: var encode = [58]byte{'1', ..., 'z'}
base58Encode ==
    << 49, 50, 51, 52, 53, 54, 55, 56, 57, 65,
    66, 67, 68, 69, 70, 71, 72, 74, 75, 76,
    77, 78, 80, 81, 82, 83, 84, 85, 86, 87,
    88, 89, 90, 97, 98, 99, 100, 101, 102, 103,
    104, 105, 106, 107, 109, 110, 111, 112, 113, 114,
    115, 116, 117, 118, 119, 120, 121, 122 >>

\* base58: var decode = [128]int64{'1': 0, ..., 'z': 57}, zero elsewhere
base58Decode ==
    [c \in 0 .. 127 |->
        IF IndexOf(base58Encode, c) >= 0 THEN IndexOf(base58Encode, c) ELSE 0]

\* base58.Encode: the loop "for id > 0"
RECURSIVE Base58Digits(_)
Base58Digits(id) ==
    IF id > 0
    THEN Append(Base58Digits(id \div 58), base58Encode[(id % 58) + 1])
    ELSE << >>

\* zero is not special-cased and encodes to the empty string
Base58Encode_ZeroEmpty(id) == Base58Digits(id)

\* base58.Encode
Base58Encode(id) == IF id = 0 THEN <<49>> ELSE Base58Digits(id)

\* base58.Decode: the loop over s[i:], with id the value so far
RECURSIVE Base58DecodeFrom(_, _, _)
Base58DecodeFrom(s, i, id) ==
    IF i > Len(s) THEN [id |-> id, err |-> "nil"]
    ELSE IF s[i] >= 128 THEN [id |-> 0, err |-> "invalid base58 character"]
    ELSE IF base58Decode[s[i]] = 0 /\ s[i] # 49
         THEN [id |-> 0, err |-> "invalid base58 character"]
    ELSE Base58DecodeFrom(s, i + 1, Int64(id * 58 + base58Decode[s[i]]))

\* base58.Decode
Base58Decode(s) == Base58DecodeFrom(s, 1, 0)

\* strconv: the digits "0123456789abcdefghijklmnopqrstuvwxyz", up to base 16
strconvDigits == << 48, 49, 50, 51, 52, 53, 54, 55, 56, 57, 97, 98, 99, 100, 101, 102 >>

\* the digits of u >= 0 in the given base, most significant first
RECURSIVE FormatBits(_, _)
FormatBits(u, base) ==
    IF u < base THEN << strconvDigits[u + 1] >>
    ELSE Append(FormatBits(u \div base, base), strconvDigits[(u % base) + 1])

\* strconv.FormatInt(i, 10)
FormatInt(i) == IF i < 0 THEN <<45>> \o FormatBits(-i, 10) ELSE FormatBits(i, 10)

\* strconv.FormatUint(u, 16)
FormatUint(u) == FormatBits(u, 16)

\* the value of the digit c in the given base, or -1
DigitValue(c, base) ==
    LET v == IF c \in 48 .. 57 THEN c - 48
             ELSE IF c \in 97 .. 122 THEN c - 97 + 10
             ELSE IF c \in 65 .. 90 THEN c - 65 + 10
             ELSE -1
    IN  IF v < base THEN v ELSE -1

\* strconv.ParseUint(s[i:], base, 64) with n the value so far, cut off at limit
RECURSIVE ParseDigitsFrom(_, _, _, _, _)
ParseDigitsFrom(s, i, base, n, limit) ==
    IF i > Len(s) THEN [n |-> n, err |-> "nil"]
    ELSE IF DigitValue(s[i], base) < 0 THEN [n |-> 0, err |-> "syntax"]
    ELSE IF n * base + DigitValue(s[i], base) > limit THEN [n |-> limit, err |-> "range"]
    ELSE ParseDigitsFrom(s, i + 1, base, n * base + DigitValue(s[i], base), limit)

\* strconv.ParseUint(s, 16, 64)
ParseUint(s) ==
    IF Len(s) = 0 THEN [n |-> 0, err |-> "syntax"]
    ELSE ParseDigitsFrom(s, 1, 16, 0, Pow2(WordBits) - 1)

\* strconv.ParseInt(s, 10, 64)
ParseInt(s) ==
    IF Len(s) = 0 THEN [n |-> 0, err |-> "syntax"]
    ELSE LET neg == s[1] = 45
             signed == s[1] \in {43, 45}
             digits == IF signed THEN Tail(s) ELSE s
             un == ParseDigitsFrom(digits, 1, 10, 0, Pow2(WordBits - 1))
         IN  IF Len(digits) = 0 THEN [n |-> 0, err |-> "syntax"]
             ELSE IF un.err = "syntax" THEN [n |-> 0, err |-> "syntax"]
             ELSE IF un.err = "range" THEN [n |-> IF neg THEN MinInt64 ELSE MaxInt64,
                                            err |-> "range"]
             ELSE IF ~neg /\ un.n > MaxInt64 THEN [n |-> MaxInt64, err |-> "range"]
             ELSE [n |-> IF neg THEN - un.n ELSE un.n, err |-> "nil"]

\* byte(x)
Byte(x) == x % 256

\* the bytes are those of the obfuscated ID
Bytes_Obfuscated(id) ==
    [k \in 1 .. WordBytes |->
        Byte(Shr(IF DefaultObfuscator # << >> THEN Xor(id, DefaultObfuscator[1]) ELSE id,
                 8 * (WordBytes - k)))]

\* ID.Bytes / ID.Hash: big-endian, WordBytes bytes
Bytes(id) == [k \in 1 .. WordBytes |-> Byte(Shr(id, 8 * (WordBytes - k)))]

\* int64(b[0])<<56 | ... | int64(b[7])
RECURSIVE BigEndian(_, _)
BigEndian(b, k) ==
    IF k = 0 THEN 0 ELSE Or(Shl(b[k], 8 * (Len(b) - k)), BigEndian(b, k - 1))

\* only a slice that is too long is refused
FromBytes_AcceptsShorter(b) ==
    IF Len(b) > WordBytes THEN [id |-> 0, err |-> "ID must be exactly 8 bytes"]
    ELSE [id |-> BigEndian(b, Len(b)), err |-> "nil"]

\* FromBytes
FromBytes(b) ==
    IF Len(b) # WordBytes THEN [id |-> 0, err |-> "ID must be exactly 8 bytes"]
    ELSE [id |-> BigEndian(b, Len(b)), err |-> "nil"]

\* ID.Int64
IDInt64(id) == Int64(id)

\* ID.Value: the driver.Value and the error
Value(id) == [v |-> Int64(id), err |-> "nil"]

\* ID.MarshalBinary
MarshalBinary(id) == [b |-> Bytes(id), err |-> "nil"]

\* FromBytesOrNil
FromBytesOrNil(b) == IF FromBytes(b).err # "nil" THEN 0 ELSE FromBytes(b).id

\* encoding/base64: the standard alphabet, padded with '='
encodeStd ==
    << 65, 66, 67, 68, 69, 70, 71, 72, 73, 74,
    75, 76, 77, 78, 79, 80, 81, 82, 83, 84,
    85, 86, 87, 88, 89, 90, 97, 98, 99, 100,
    101, 102, 103, 104, 105, 106, 107, 108, 109, 110,
    111, 112, 113, 114, 115, 116, 117, 118, 119, 120,
    121, 122, 48, 49, 50, 51, 52, 53, 54, 55,
    56, 57, 43, 47 >>

\* base64.StdEncoding.EncodeToString(b[i:])
RECURSIVE Base64EncodeFrom(_, _)
Base64EncodeFrom(b, i) ==
    LET left == Len(b) - i + 1
        b1 == b[i]
        b2 == IF left >= 2 THEN b[i + 1] ELSE 0
        b3 == IF left >= 3 THEN b[i + 2] ELSE 0
        c1 == encodeStd[(b1 \div 4) + 1]
        c2 == encodeStd[((b1 % 4) * 16 + (b2 \div 16)) + 1]
        c3 == encodeStd[((b2 % 16) * 4 + (b3 \div 64)) + 1]
        c4 == encodeStd[(b3 % 64) + 1]
    IN  IF left <= 0 THEN << >>
        ELSE IF left = 1 THEN << c1, c2, 61, 61 >>
        ELSE IF left = 2 THEN << c1, c2, c3, 61 >>
        ELSE << c1, c2, c3, c4 >> \o Base64EncodeFrom(b, i + 3)

\* base64.StdEncoding.EncodeToString
Base64Encode(b) == Base64EncodeFrom(b, 1)

\* base64.StdEncoding.DecodeString, on the input without '\r' and '\n':
\* whole quanta of four characters, '=' only as the padding of the last one
RECURSIVE Base64DecodeFrom(_, _)
Base64DecodeFrom(s, i) ==
    LET v(k) == IndexOf(encodeStd, s[i + k])
        isLast == i + 3 = Len(s)
        bad == [b |-> << >>, err |-> "illegal base64 data"]
        rest == Base64DecodeFrom(s, i + 4)
        o1 == v(0) * 4 + (v(1) \div 16)
        o2 == (v(1) % 16) * 16 + (v(2) \div 4)
        o3 == (v(2) % 4) * 64 + v(3)
    IN  IF i > Len(s) THEN [b |-> << >>, err |-> "nil"]
        ELSE IF i + 3 > Len(s) THEN bad
        ELSE IF v(0) < 0 \/ v(1) < 0 THEN bad
        ELSE IF isLast /\ s[i + 2] = 61 /\ s[i + 3] = 61 THEN [b |-> << o1 >>, err |-> "nil"]
        ELSE IF v(2) < 0 THEN bad
        ELSE IF isLast /\ s[i + 3] = 61 THEN [b |-> << o1, o2 >>, err |-> "nil"]
        ELSE IF v(3) < 0 THEN bad
        ELSE IF rest.err # "nil" THEN bad
        ELSE [b |-> << o1, o2, o3 >> \o rest.b, err |-> "nil"]

\* base64.StdEncoding.DecodeString
Base64Decode(s) == Base64DecodeFrom(SelectSeq(s, LAMBDA c : c \notin {10, 13}), 1)

(***************************************************************************)
(* obfuscator.go and usid.go: Format and the Parse functions.              *)
(***************************************************************************)
FormatCrockford == "crockford"
FormatBase58 == "base58"
FormatBase64 == "base64"
FormatHash == "hash"
FormatDecimal == "decimal"
Formats == {FormatCrockford, FormatBase58, FormatBase64, FormatHash, FormatDecimal}

Nil == 0

\* the key is added instead of XORed, which Deobfuscate does not undo
Obfuscate_Adds(key, x) == Int64(Uint64(x + key))

\* Obfuscator.Obfuscate and Obfuscator.Deobfuscate
Obfuscate(key, x) == Xor(x, key)
Deobfuscate(key, x) == Xor(x, key)

\* obfuscate: applies DefaultObfuscator if set
obfuscate(x) ==
    IF DefaultObfuscator # << >> THEN Obfuscate(DefaultObfuscator[1], x) ELSE x

\* deobfuscate: reverses obfuscation if DefaultObfuscator is set
deobfuscate(x) ==
    IF DefaultObfuscator # << >> THEN Deobfuscate(DefaultObfuscator[1], x) ELSE x

\* ID.Format(f)
Format(x, f) ==
    IF f = FormatBase58 THEN Base58Encode(obfuscate(x))
    ELSE IF f = FormatDecimal THEN FormatInt(obfuscate(x))
    ELSE IF f = FormatBase64 THEN Base64Encode(Bytes(obfuscate(x)))
    ELSE IF f = FormatHash THEN FormatUint(Uint64(obfuscate(x)))
    ELSE CrockfordEncode(obfuscate(x))

Failed(e) == [id |-> Nil, err |-> e]
Parsed(x) == [id |-> deobfuscate(x), err |-> "nil"]

\* the empty string is decoded like any other
ParseCrockford_NoEmptyCheck(s) ==
    IF CrockfordDecode(s).err # "nil" THEN Failed(CrockfordDecode(s).err)
    ELSE Parsed(CrockfordDecode(s).id)

\* ParseCrockford
ParseCrockford(s) ==
    IF Len(s) = 0 THEN Failed("empty string")
    ELSE IF CrockfordDecode(s).err # "nil" THEN Failed(CrockfordDecode(s).err)
    ELSE Parsed(CrockfordDecode(s).id)

\* ParseBase58
ParseBase58(s) ==
    IF Len(s) = 0 THEN Failed("empty string")
    ELSE IF Base58Decode(s).err # "nil" THEN Failed(Base58Decode(s).err)
    ELSE Parsed(Base58Decode(s).id)

\* ParseBase64
ParseBase64(s) ==
    IF Len(s) = 0 THEN Failed("empty string")
    ELSE IF Base64Decode(s).err # "nil" THEN Failed("invalid base64")
    ELSE IF FromBytes(Base64Decode(s).b).err # "nil"
         THEN Failed(FromBytes(Base64Decode(s).b).err)
    ELSE Parsed(FromBytes(Base64Decode(s).b).id)

\* isHex
isHex(s) ==
    \A i \in 1 .. Len(s) : s[i] \in (48 .. 57) \cup (97 .. 102) \cup (65 .. 70)

\* hexDecode: 1 to 2 * WordBytes digits, to WordBytes big-endian bytes
\* the length is not checked
hexDecode_AnyLength(s) ==
    IF ParseUint(s).err # "nil" THEN [b |-> << >>, err |-> "invalid hex character"]
    ELSE [b |-> Bytes(ParseUint(s).n), err |-> "nil"]

hexDecode(s) ==
    IF Len(s) = 0 \/ Len(s) > 2 * WordBytes
    THEN [b |-> << >>, err |-> "hex string must be 1-16 characters"]
    ELSE IF ParseUint(s).err # "nil" THEN [b |-> << >>, err |-> "invalid hex character"]
    ELSE [b |-> Bytes(ParseUint(s).n), err |-> "nil"]

\* ParseHash
ParseHash(s) ==
    IF Len(s) = 0 THEN Failed("empty string")
    ELSE IF ~isHex(s) THEN Failed("invalid hex string")
    ELSE IF hexDecode(s).err # "nil" THEN Failed(hexDecode(s).err)
    ELSE IF FromBytes(hexDecode(s).b).err # "nil" THEN Failed(FromBytes(hexDecode(s).b).err)
    ELSE Parsed(FromBytes(hexDecode(s).b).id)

\* ParseDecimal
ParseDecimal(s) ==
    IF Len(s) = 0 THEN Failed("empty string")
    ELSE IF ParseInt(s).err # "nil" THEN Failed("invalid decimal")
    ELSE Parsed(ParseInt(s).n)

\* the Parse function that matches Format f, as Parse picks it for DefaultFormat
ParseAs(f, s) ==
    IF f = FormatBase58 THEN ParseBase58(s)
    ELSE IF f = FormatDecimal THEN ParseDecimal(s)
    ELSE IF f = FormatBase64 THEN ParseBase64(s)
    ELSE IF f = FormatHash THEN ParseHash(s)
    ELSE ParseCrockford(s)

\* Parse: by DefaultFormat
Parse(s) == ParseAs(DefaultFormat, s)

\* ID.String
String(x) == Format(x, DefaultFormat)

\* ID.MarshalText
MarshalText(x) == [b |-> String(x), err |-> "nil"]

\* the receiver is assigned what Parse returned also when it failed
UnmarshalText_WritesOnError(x, b) == Parse(b)

\* ID.UnmarshalText on a receiver that holds x: the ID it holds then, and the error
UnmarshalText(x, b) ==
    IF Parse(b).err # "nil" THEN [id |-> x, err |-> Parse(b).err]
    ELSE [id |-> Parse(b).id, err |-> "nil"]

\* ID.MarshalJSON
MarshalJSON(x) == [b |-> <<34>> \o String(x) \o <<34>>, err |-> "nil"]

\* "null"
nullJSON == <<110, 117, 108, 108>>

\* a bare JSON number is decoded as text in DefaultFormat, like a quoted string
UnmarshalJSON_NumberAsText(x, b) ==
    IF b = nullJSON THEN [id |-> Nil, err |-> "nil"]
    ELSE IF Len(b) > 0 /\ b[1] # 34 THEN UnmarshalText(x, b)
    ELSE IF Len(b) < 2 \/ b[1] # 34 \/ b[Len(b)] # 34
         THEN [id |-> x, err |-> "invalid JSON string"]
    ELSE UnmarshalText(x, SubSeq(b, 2, Len(b) - 1))

\* ID.UnmarshalJSON on a receiver that holds x
UnmarshalJSON(x, b) ==
    IF b = nullJSON THEN [id |-> Nil, err |-> "nil"]
    ELSE IF Len(b) > 0 /\ b[1] # 34
         THEN IF ParseInt(b).err # "nil" THEN [id |-> x, err |-> "invalid JSON value"]
              ELSE [id |-> deobfuscate(ParseInt(b).n), err |-> "nil"]
    ELSE IF Len(b) < 2 \/ b[1] # 34 \/ b[Len(b)] # 34
         THEN [id |-> x, err |-> "invalid JSON string"]
    ELSE UnmarshalText(x, SubSeq(b, 2, Len(b) - 1))

\* ID.UnmarshalBinary and ID.GobDecode on a receiver that holds x
UnmarshalBinary(x, data) ==
    IF FromBytes(data).err # "nil" THEN [id |-> x, err |-> FromBytes(data).err]
    ELSE [id |-> FromBytes(data).id, err |-> "nil"]
GobDecode(x, data) == UnmarshalBinary(x, data)

\* (*ID).Parse on a receiver that holds x
ID_Parse(x, str) ==
    IF Parse(str).err # "nil" THEN [id |-> x, err |-> Parse(str).err]
    ELSE [id |-> Parse(str).id, err |-> "nil"]

\* ID.Scan on a receiver that holds x: the ID it holds then, and the error.
\* src is [kind, v]: nil, an ID <<i>>, an int64 <<i>>, bytes, a string, or a
\* value of another type.
Scan(x, src) ==
    IF src.kind = "nil" THEN [id |-> Nil, err |-> "nil"]
    ELSE IF src.kind \in {"ID", "int64"} THEN [id |-> src.v[1], err |-> "nil"]
    ELSE IF src.kind \in {"bytes", "string"} THEN UnmarshalText(x, src.v)
    ELSE [id |-> x, err |-> "cannot scan"]

\* NullID.Value: val is << >> for nil, <<v>> for the driver value v
NullIDValue(n) ==
    IF ~n.Valid THEN [val |-> << >>, err |-> "nil"]
    ELSE [val |-> <<Value(n.ID).v>>, err |-> Value(n.ID).err]

\* NullID.Scan on a receiver that holds n: the NullID it holds then, and the
\* error
NullIDScan(n, src) ==
    IF src.kind = "nil" THEN [n |-> [ID |-> Nil, Valid |-> FALSE], err |-> "nil"]
    ELSE [n |-> [ID |-> Scan(n.ID, src).id, Valid |-> TRUE],
          err |-> Scan(n.ID, src).err]

\* Valid is not consulted
NullIDMarshalJSON_IgnoresValid(n) == MarshalJSON(n.ID)

\* NullID.MarshalJSON
NullIDMarshalJSON(n) ==
    IF ~n.Valid THEN [b |-> nullJSON, err |-> "nil"]
    ELSE MarshalJSON(n.ID)

\* NullID.UnmarshalJSON on a receiver that holds n
NullIDUnmarshalJSON(n, b) ==
    IF b = nullJSON THEN [n |-> [ID |-> Nil, Valid |-> FALSE], err |-> "nil"]
    ELSE [n |-> [ID |-> UnmarshalJSON(n.ID, b).id,
                 Valid |-> UnmarshalJSON(n.ID, b).err = "nil"],
          err |-> UnmarshalJSON(n.ID, b).err]

\* NullID.UnmarshalText on a receiver that holds n
NullIDUnmarshalText(n, b) ==
    IF Len(b) = 0 THEN [n |-> [ID |-> Nil, Valid |-> FALSE], err |-> "nil"]
    ELSE [n |-> [ID |-> UnmarshalText(n.ID, b).id,
                 Valid |-> UnmarshalText(n.ID, b).err = "nil"],
          err |-> UnmarshalText(n.ID, b).err]

(***************************************************************************)
(* generator.go: NewGenerator.                                             *)
(***************************************************************************)
NodeMax == Int64(Pow2(NodeBits) - 1)

\* the range check without its lower bound
NodeOutOfRange_NoLowerBound(node) == node > NodeMax

NodeOutOfRange(node) == node < 0 \/ node > NodeMax

Generator(node) ==
    [node      |-> node,
     state     |-> 0,
     seqMask   |-> Int64(Pow2(SeqBits) - 1),
     nodeShift |-> SeqBits,
     timeShift |-> SeqBits + NodeBits]

\* node ids a caller may pass: every value in range, and one beyond each end
NodeInputs == -1 .. Pow2(NodeBits)

\* the layouts the README's tuning section reaches: same total width
Layouts == {l \in (1 .. (DefaultNodeBits + DefaultSeqBits - 1)) \X
                  (1 .. (DefaultNodeBits + DefaultSeqBits - 1)) :
              l[1] + l[2] = DefaultNodeBits + DefaultSeqBits}

NoResult == [id |-> Nil, err |-> "none"]
NoOut == [op |-> "none", key |-> << >>, arg |-> Nil, val |-> Nil, rekeyed |-> FALSE]
NoPrev == [op |-> "none", arg |-> Nil, val |-> Nil]

\* the zero NullID, and the reply before any method of a NullID is called
NoNullID == [ID |-> Nil, Valid |-> FALSE]
NoSrc == [kind |-> "none", v |-> << >>]
NoReply == [op |-> "none", src |-> NoSrc, b |-> << >>, val |-> << >>, err |-> "nil"]

\* postgres: no _usid_config table, no function, and no Migrate call yet
NoDB == [table |-> FALSE, config |-> << >>, functions |-> << >>, installs |-> 0]
NoMigrate == [calls |-> 0, cfg |-> << >>, err |-> "nil", first |-> << >>]

Init ==
    /\ NodeBits = DefaultNodeBits
    /\ SeqBits = DefaultSeqBits
    /\ gens = << [node      |-> 1,
                  state     |-> 0,
                  seqMask   |-> Int64(Pow2(DefaultSeqBits) - 1),
                  nodeShift |-> DefaultSeqBits,
                  timeShift |-> DefaultSeqBits + DefaultNodeBits] >>
    /\ DefaultGenerator = 1
    /\ clock \in ClockRange
    /\ pc = [t \in Threads |-> "idle"]
    /\ tg = [t \in Threads |-> 0]
    /\ now = [t \in Threads |-> 0]
    /\ old = [t \in Threads |-> 0]
    /\ seen = [t \in Threads |-> 0]
    /\ lastReader = 0
    /\ panicked = << >>
    /\ issued = EmptyBag
    /\ last = << << >> >>
    /\ spun = << FALSE >>
    /\ wins = 0
    /\ DefaultFormat = FormatBase58
    /\ DefaultObfuscator = << >>
    /\ uid = Nil
    /\ format = FormatBase58
    /\ text = << >>
    /\ result = NoResult
    /\ stage = "start"
    /\ out = NoOut
    /\ prev = NoPrev
    /\ nullid = NoNullID
    /\ reply = NoReply
    /\ db = NoDB
    /\ migrated = NoMigrate

\* an unrecovered panic ends the process
Running == panicked = << >>

AllIdle == \A t \in Threads : pc[t] = "idle"

\* the identifiers Generator g has returned, and how many
IssuedBy(g) == {r \in BagToSet(issued) : r.gen = g}
Wins(g) == BagCardinality([r \in IssuedBy(g) |-> issued[r]])

\* the caller sets NodeBits and SeqBits at startup, before any ID is generated
Tune(nb, sb) ==
    /\ Running
    /\ UNCHANGED codecVars
    /\ issued = EmptyBag
    /\ AllIdle
    /\ Len(gens) = 1
    /\ <<nb, sb>> # <<NodeBits, SeqBits>>
    /\ NodeBits' = nb
    /\ SeqBits' = sb
    /\ UNCHANGED <<DefaultGenerator, gens, clock, callVars, panicked, histVars>>

\* NewGenerator(node), called while no Generate is in flight: panics when
\* node is out of range
NewGenerator(node) ==
    /\ Running
    /\ UNCHANGED codecVars
    /\ AllIdle
    /\ IF NodeOutOfRange(node)
       THEN /\ panicked' = <<node>>
            /\ UNCHANGED <<gens, last, spun>>
       ELSE /\ Len(gens) < MaxGenerators
            /\ gens' = Append(gens, Generator(node))
            /\ last' = Append(last, << >>)
            /\ spun' = Append(spun, FALSE)
            /\ UNCHANGED panicked
    /\ UNCHANGED <<configVars, clock, callVars, issued, wins>>

\* SetNodeID(node), called while no New is in flight:
\* DefaultGenerator = NewGenerator(node)
SetNodeID(node) ==
    /\ Running
    /\ UNCHANGED codecVars
    /\ AllIdle
    /\ IF NodeOutOfRange(node)
       THEN /\ panicked' = <<node>>
            /\ UNCHANGED <<gens, DefaultGenerator, last, spun>>
       ELSE /\ Len(gens) < MaxGenerators
            /\ gens' = Append(gens, Generator(node))
            /\ DefaultGenerator' = Len(gens) + 1
            /\ last' = Append(last, << >>)
            /\ spun' = Append(spun, FALSE)
            /\ UNCHANGED panicked
    /\ UNCHANGED <<NodeBits, SeqBits, clock, callVars, issued, wins>>

(***************************************************************************)
(* generator.go: Generate, one action per shared-memory step.              *)
(***************************************************************************)
\* the word of Generator g, decomposed as Generate decomposes it
WordTime(w) == Int64(Uint64(w) \div Pow2(SeqBits))
WordSeq(w, g) == Int64(UAnd(w, Uint64(gens[g].seqMask)))

\* a clock reading above the recorded timestamp ends the exhaustion
Unspin(g, reading) ==
    [spun EXCEPT ![g] = spun[g] /\ reading <= WordTime(gens[g].state)]

\* a caller enters g.Generate() and reads the clock for its first iteration
Generate(t, g) ==
    /\ Running
    /\ UNCHANGED codecVars
    /\ pc[t] = "idle"
    /\ BagCardinality(issued) < MaxIssued
    /\ tg' = [tg EXCEPT ![t] = g]
    /\ now' = [now EXCEPT ![t] = clock - Epoch]
    /\ pc' = [pc EXCEPT ![t] = "load"]
    /\ lastReader' = t
    /\ spun' = Unspin(g, clock - Epoch)
    /\ UNCHANGED <<configVars, gens, clock, old, seen, panicked, issued, last, wins>>

\* New(): DefaultGenerator.Generate()
New(t) == Generate(t, DefaultGenerator)

\* the clock is read once, before the loop
ReadClock_KeepsNow(t) ==
    /\ Running
    /\ UNCHANGED codecVars
    /\ pc[t] = "read"
    /\ pc' = [pc EXCEPT ![t] = "load"]
    /\ lastReader' = t
    /\ UNCHANGED <<configVars, gens, clock, tg, now, old, seen, panicked, histVars>>

\* now := time.Now().UnixMicro() - Epoch, at the top of a later iteration
ReadClock(t) ==
    /\ Running
    /\ UNCHANGED codecVars
    /\ pc[t] = "read"
    /\ now' = [now EXCEPT ![t] = clock - Epoch]
    /\ pc' = [pc EXCEPT ![t] = "load"]
    /\ lastReader' = t
    /\ spun' = Unspin(tg[t], clock - Epoch)
    /\ UNCHANGED <<configVars, gens, clock, tg, old, seen, panicked, issued, last, wins>>

\* the sequence number is reused instead of incremented
seq_NoIncrement(n, w, g) == IF n > WordTime(w) THEN 0 ELSE WordSeq(w, g)

\* the clock reading is taken also when it is behind the recorded timestamp
newTime_TakesNow(n, w) == n

\* the stored timestamp is kept also when the clock reading is above it
newTime_KeepsOld(n, w) == WordTime(w)

\* the first identifier of a fresh Generator takes sequence number 0
seq_FromZero(n, w, g) ==
    IF n > WordTime(w) \/ w = 0 THEN 0 ELSE WordSeq(w, g) + 1

\* the branch of an iteration that read now n and loaded word w on Generator g:
\* a new bucket, or the next sequence number
seq(n, w, g) == IF n > WordTime(w) THEN 0 ELSE WordSeq(w, g) + 1
newTime(n, w) == IF n > WordTime(w) THEN n ELSE WordTime(w)

\* the exhaustion check is missing
Exhausted_Never(n, w, g) == FALSE

\* "Sequence exhausted, spin until time advances"
Exhausted(n, w, g) == n <= WordTime(w) /\ seq(n, w, g) > gens[g].seqMask

\* the word the compare-and-swap stores
NewWord(n, w, g) == UOr(Uint64(Shl(newTime(n, w), SeqBits)), Uint64(seq(n, w, g)))

\* the node is not shifted above the sequence field
NewID_NodeUnshifted(n, w, g) ==
    Or(Or(Shl(newTime(n, w), gens[g].timeShift), gens[g].node), seq(n, w, g))

\* the identifier the call returns
NewID(n, w, g) ==
    Or(Or(Shl(newTime(n, w), gens[g].timeShift),
          Shl(gens[g].node, gens[g].nodeShift)),
       seq(n, w, g))

\* old := g.state.Load(), and the sequence is not exhausted
Load(t) ==
    /\ Running
    /\ UNCHANGED codecVars
    /\ pc[t] = "load"
    /\ ~Exhausted(now[t], gens[tg[t]].state, tg[t])
    /\ old' = [old EXCEPT ![t] = gens[tg[t]].state]
    /\ seen' = [seen EXCEPT ![t] = Wins(tg[t])]
    /\ pc' = [pc EXCEPT ![t] = "cas"]
    /\ UNCHANGED <<configVars, gens, clock, tg, now, lastReader, panicked, histVars>>

\* on exhaustion the iteration itself moves the word to the next timestamp
Spin_AdvancesWord(t) ==
    /\ Running
    /\ UNCHANGED codecVars
    /\ pc[t] = "load"
    /\ Exhausted(now[t], gens[tg[t]].state, tg[t])
    /\ pc' = [pc EXCEPT ![t] = "read"]
    /\ gens' = [gens EXCEPT ![tg[t]].state =
                   Uint64(Shl(WordTime(gens[tg[t]].state) + 1, SeqBits))]
    /\ spun' = [spun EXCEPT ![tg[t]] = spun[tg[t]] \/ lastReader = t]
    /\ UNCHANGED <<configVars, clock, tg, now, old, seen, lastReader, panicked,
                   issued, last, wins>>

\* old := g.state.Load(), and the sequence is exhausted: continue, back to
\* the top of the loop without a compare-and-swap
Spin(t) ==
    /\ Running
    /\ UNCHANGED codecVars
    /\ pc[t] = "load"
    /\ Exhausted(now[t], gens[tg[t]].state, tg[t])
    /\ pc' = [pc EXCEPT ![t] = "read"]
    /\ spun' = [spun EXCEPT ![tg[t]] = spun[tg[t]] \/ lastReader = t]
    /\ UNCHANGED <<configVars, gens, clock, tg, now, old, seen, lastReader, panicked,
                   issued, last, wins>>

\* g.state.CompareAndSwap(old, new) succeeds and the call returns
Swap(t) ==
    /\ Running
    /\ UNCHANGED codecVars
    /\ pc[t] = "cas"
    /\ gens[tg[t]].state = old[t]
    /\ gens' = [gens EXCEPT ![tg[t]].state = NewWord(now[t], old[t], tg[t])]
    /\ spun' = [spun EXCEPT ![tg[t]] = FALSE]
    /\ wins' = 1 - wins
    /\ pc' = [pc EXCEPT ![t] = "idle"]
    /\ tg' = [tg EXCEPT ![t] = 0]
    /\ now' = [now EXCEPT ![t] = 0]
    /\ old' = [old EXCEPT ![t] = 0]
    /\ seen' = [seen EXCEPT ![t] = 0]
    /\ lastReader' = IF lastReader = t THEN 0 ELSE lastReader
    /\ UNCHANGED <<configVars, clock, panicked>>

\* g.state.CompareAndSwap(old, new) succeeds: return the ID, which the
\* history records, with whether the call ran on DefaultGenerator as New()
\* does (SetNodeID is not called while a New is in flight)
CasOk(t) ==
    /\ Swap(t)
    /\ issued' = issued (+) SetToBag({[gen  |-> tg[t],
                                       id   |-> NewID(now[t], old[t], tg[t]),
                                       time |-> newTime(now[t], old[t]),
                                       seq  |-> seq(now[t], old[t], tg[t]),
                                       new  |-> tg[t] = DefaultGenerator]})
    /\ last' = [last EXCEPT ![tg[t]] = <<NewID(now[t], old[t], tg[t])>>]

\* g.state.CompareAndSwap(old, new) fails: back to the top of the loop
CasFail(t) ==
    /\ Running
    /\ UNCHANGED codecVars
    /\ pc[t] = "cas"
    /\ gens[tg[t]].state # old[t]
    /\ pc' = [pc EXCEPT ![t] = "read"]
    /\ old' = [old EXCEPT ![t] = 0]
    /\ seen' = [seen EXCEPT ![t] = 0]
    /\ UNCHANGED <<configVars, gens, clock, tg, now, lastReader, panicked, histVars>>

\* the wall clock moves, forward or backward
Tick(c) ==
    /\ Running
    /\ UNCHANGED codecVars
    /\ c # clock
    /\ clock' = c
    /\ UNCHANGED <<configVars, gens, callVars, panicked, histVars>>

Next ==
    \/ \E l \in Layouts : Tune(l[1], l[2])
    \/ \E n \in NodeInputs : NewGenerator(n)
    \/ \E n \in NodeInputs : SetNodeID(n)
    \/ \E t \in Threads : \E g \in 1 .. Len(gens) : Generate(t, g)
    \/ \E t \in Threads : New(t)
    \/ \E t \in Threads : ReadClock(t)
    \/ \E t \in Threads : Load(t)
    \/ \E t \in Threads : Spin(t)
    \/ \E t \in Threads : CasOk(t)
    \/ \E t \in Threads : CasFail(t)
    \/ \E c \in ClockRange : Tick(c)

Spec == Init /\ [][Next]_vars

(***************************************************************************)
(* Generate under fair scheduling and a clock that keeps advancing.  Times *)
(* are kept in a window of MaxClock + 1 microseconds that slides with the  *)
(* clock: what Generate does depends on the times it holds only through    *)
(* their order and their differences.                                      *)
(***************************************************************************)
\* the word w with its timestamp one microsecond earlier
Earlier(w) == Uint64(w - Pow2(SeqBits))

\* every time a Generator or a call in flight holds is above the bottom of
\* the window
AboveBottom ==
    /\ \A g \in 1 .. Len(gens) : WordTime(gens[g].state) >= 1
    /\ \A t \in Threads : pc[t] \in {"load", "cas"} => now[t] >= 1
    /\ \A t \in Threads : pc[t] = "cas" => WordTime(old[t]) >= 1

\* one microsecond passes: the clock moves up in the window, or, at its top,
\* the window moves with it
AdvanceClock ==
    /\ Running
    /\ UNCHANGED codecVars
    /\ IF clock < Epoch + MaxClock
       THEN /\ clock' = clock + 1
            /\ UNCHANGED <<gens, now, old>>
       ELSE /\ AboveBottom
            /\ clock' = clock
            /\ gens' = [g \in 1 .. Len(gens) |->
                           [gens[g] EXCEPT !.state = Earlier(gens[g].state)]]
            /\ now' = [t \in Threads |-> IF now[t] >= 1 THEN now[t] - 1 ELSE 0]
            /\ old' = [t \in Threads |->
                           IF pc[t] = "cas" THEN Earlier(old[t]) ELSE old[t]]
    /\ UNCHANGED <<configVars, pc, tg, seen, lastReader, panicked, histVars>>

\* g.state.CompareAndSwap(old, new) succeeds: return the ID
Return(t) ==
    /\ Swap(t)
    /\ UNCHANGED <<issued, last>>

\* the next step of the call thread t is in
Step(t) == ReadClock(t) \/ Load(t) \/ Spin(t) \/ Return(t) \/ CasFail(t)

NextLive ==
    \/ \E t \in Threads : New(t)
    \/ \E t \in Threads : ReadClock(t)
    \/ \E t \in Threads : Load(t)
    \/ \E t \in Threads : Spin(t)
    \/ \E t \in Threads : Return(t)
    \/ \E t \in Threads : CasFail(t)
    \/ AdvanceClock

\* every thread in a call keeps running, and the clock keeps advancing
SpecLive ==
    /\ Init
    /\ [][NextLive]_vars
    /\ \A t \in Threads : WF_vars(Step(t))
    /\ WF_vars(AdvanceClock)

(***************************************************************************)
(* usid.go: an ID is formatted and the text is parsed back.                *)
(***************************************************************************)
\* the ID whose bytes are 0x11, 0x22, 0x33, ...
RECURSIVE ExampleUpTo(_)
ExampleUpTo(k) == IF k = 0 THEN 0 ELSE ExampleUpTo(k - 1) * 256 + 17 * k
ExampleID == ExampleUpTo(WordBytes)

\* the IDs tried: the small ones, the largest ones, the powers of two and
\* their neighbours, and the two ends of the negative range
IDInputs ==
    (0 .. MaxSample)
    \cup {MaxInt64 - k : k \in 0 .. MaxSample}
    \cup {Pow2(k) : k \in 0 .. (WordBits - 2)}
    \cup {Pow2(k) - 1 : k \in 0 .. (WordBits - 2)}
    \cup {-1, MinInt64}
    \cup {ExampleID}

\* the keys tried
KeyInputs == {0, 5, MaxInt64, -1}

\* the values DefaultFormat is given: the five formats and an unknown one
FormatInputs == Formats \cup {"other"}

InitCodec ==
    /\ NodeBits = DefaultNodeBits
    /\ SeqBits = DefaultSeqBits
    /\ gens = << [node      |-> 1,
                  state     |-> 0,
                  seqMask   |-> Int64(Pow2(DefaultSeqBits) - 1),
                  nodeShift |-> DefaultSeqBits,
                  timeShift |-> DefaultSeqBits + DefaultNodeBits] >>
    /\ DefaultGenerator = 1
    /\ clock = Epoch
    /\ pc = [t \in Threads |-> "idle"]
    /\ tg = [t \in Threads |-> 0]
    /\ now = [t \in Threads |-> 0]
    /\ old = [t \in Threads |-> 0]
    /\ seen = [t \in Threads |-> 0]
    /\ lastReader = 0
    /\ panicked = << >>
    /\ issued = EmptyBag
    /\ last = << << >> >>
    /\ spun = << FALSE >>
    /\ wins = 0
    /\ DefaultFormat = FormatBase58
    /\ DefaultObfuscator = << >>
    /\ uid \in IDInputs
    /\ format = FormatBase58
    /\ text = << >>
    /\ result = NoResult
    /\ stage = "start"
    /\ out = NoOut
    /\ prev = NoPrev
    /\ nullid = NoNullID
    /\ reply = NoReply
    /\ db = NoDB
    /\ migrated = NoMigrate

\* the methods of ID and of Obfuscator that take and return values
BinaryOps == {"Bytes", "Int64", "Value", "MarshalBinary", "FromBytes",
              "Node", "Seq", "Timestamp"}
ValueOps == {"Obfuscate", "Deobfuscate", "obfuscate", "deobfuscate", "FromBytesOrNil"}
                \cup BinaryOps

\* the byte slices tried: every length up to one more than an ID has
ByteInputs ==
    {[k \in 1 .. n |-> v] : n \in 0 .. (WordBytes + 1), v \in {17, 255}}

\* a method is called first, or again
Ready(op) == stage \in {"start", op}

\* no method has been called yet
Startup == stage \in {"start", "SetDefaultFormat"}

\* SetObfuscator(key)
SetObfuscator(key) ==
    /\ stage \in ValueOps \/ Startup
    /\ DefaultObfuscator # <<key>>
    /\ DefaultObfuscator' = <<key>>
    /\ UNCHANGED <<DefaultFormat, uid, format, text, result, stage>>
    /\ UNCHANGED valueVars
    /\ UNCHANGED <<genVars, nullVars, dbVars>>

\* a method is called with arg and returns val; p is the earlier call to
\* remember, and rekeyed tells that the key has changed since
Called(op, arg, val, p) ==
    /\ out' = [op |-> op, key |-> DefaultObfuscator, arg |-> arg, val |-> val,
               rekeyed |-> p.op # "none" /\ p.key # DefaultObfuscator]
    /\ prev' = [op |-> p.op, arg |-> p.arg, val |-> p.val]
    /\ stage' = op
    /\ UNCHANGED <<DefaultFormat, DefaultObfuscator, uid, format, text, result>>
    /\ UNCHANGED <<genVars, nullVars, dbVars>>

\* the last call, when it was a call of op with arg
Same(op, arg) == IF out.op = op THEN (IF out.arg = arg THEN out ELSE NoOut) ELSE NoOut

\* DefaultObfuscator.Obfuscate(uid)
CallObfuscate ==
    /\ Ready("Obfuscate")
    /\ DefaultObfuscator # << >>
    /\ Called("Obfuscate", uid, Obfuscate(DefaultObfuscator[1], uid), NoOut)

\* DefaultObfuscator.Deobfuscate(x), x what Obfuscate returned
CallDeobfuscate ==
    /\ DefaultObfuscator # << >>
    /\ out.op = "Obfuscate"
    /\ Called("Deobfuscate", out.val, Deobfuscate(DefaultObfuscator[1], out.val), out)

\* obfuscate(uid)
Callobfuscate ==
    /\ Ready("obfuscate")
    /\ Called("obfuscate", uid, obfuscate(uid), NoOut)

\* deobfuscate(x), x what obfuscate returned
Calldeobfuscate ==
    /\ out.op = "obfuscate"
    /\ Called("deobfuscate", out.val, deobfuscate(out.val), out)

\* uid.Bytes()
CallBytes ==
    /\ Ready("Bytes")
    /\ Called("Bytes", uid, Bytes(uid), Same("Bytes", uid))

\* uid.Int64()
CallInt64 ==
    /\ Ready("Int64")
    /\ Called("Int64", uid, IDInt64(uid), Same("Int64", uid))

\* uid.Value()
CallValue ==
    /\ Ready("Value")
    /\ Called("Value", uid, Value(uid), Same("Value", uid))

\* uid.MarshalBinary()
CallMarshalBinary ==
    /\ Ready("MarshalBinary")
    /\ Called("MarshalBinary", uid, MarshalBinary(uid), Same("MarshalBinary", uid))

\* FromBytes(b), b the bytes of uid or another slice
CallFromBytes(b) ==
    /\ Ready("FromBytes")
    /\ Called("FromBytes", b, FromBytes(b), Same("FromBytes", b))

\* FromBytesOrNil(b)
CallFromBytesOrNil(b) ==
    /\ Ready("FromBytesOrNil")
    /\ Called("FromBytesOrNil", b, FromBytesOrNil(b), NoOut)

\* uid.Node()
CallNode ==
    /\ Ready("Node")
    /\ Called("Node", uid, Node(uid), Same("Node", uid))

\* uid.Seq()
CallSeq ==
    /\ Ready("Seq")
    /\ Called("Seq", uid, IDSeq(uid), Same("Seq", uid))

\* uid.Timestamp()
CallTimestamp ==
    /\ Ready("Timestamp")
    /\ Called("Timestamp", uid, Timestamp(uid), Same("Timestamp", uid))

\* text := id.Format(f)
FormatID(f) ==
    /\ stage \in {"start", "SetDefaultFormat"}
    /\ format' = f
    /\ text' = Format(uid, f)
    /\ stage' = "formatted"
    /\ UNCHANGED <<DefaultFormat, DefaultObfuscator, uid, result>>
    /\ UNCHANGED valueVars
    /\ UNCHANGED <<genVars, nullVars, dbVars>>

\* the Parse function of the format the text is in
ParseText ==
    /\ stage = "formatted"
    /\ result' = ParseAs(format, text)
    /\ stage' = "parsed"
    /\ UNCHANGED <<DefaultFormat, DefaultObfuscator, uid, format, text>>
    /\ UNCHANGED valueVars
    /\ UNCHANGED <<genVars, nullVars, dbVars>>

\* DefaultFormat = f
SetDefaultFormat(f) ==
    /\ stage \in {"start", "SetDefaultFormat", "formatted"}
    /\ f # DefaultFormat
    /\ DefaultFormat' = f
    /\ stage' = IF stage = "start" THEN "SetDefaultFormat" ELSE stage
    /\ UNCHANGED <<DefaultObfuscator, uid, format, text, result>>
    /\ UNCHANGED valueVars
    /\ UNCHANGED <<genVars, nullVars, dbVars>>

\* the JSON documents tried besides what MarshalJSON returns: the integer
\* uid, null, nothing, a lone quote, an empty string, an object
JSONInputs ==
    {FormatInt(uid), nullJSON, << >>, <<34>>, <<34, 34>>, <<123, 125>>}

\* text := uid.MarshalJSON()
CallMarshalJSON ==
    /\ Startup
    /\ text' = MarshalJSON(uid).b
    /\ stage' = "MarshalJSON"
    /\ UNCHANGED <<DefaultFormat, DefaultObfuscator, uid, format, result>>
    /\ UNCHANGED valueVars
    /\ UNCHANGED <<genVars, nullVars, dbVars>>

\* var got ID; got.UnmarshalJSON(b), b what MarshalJSON returned or an input
CallUnmarshalJSON(b) ==
    /\ \/ Startup /\ b \in JSONInputs
       \/ stage = "MarshalJSON" /\ b = text
    /\ text' = b
    /\ result' = UnmarshalJSON(Nil, b)
    /\ stage' = "UnmarshalJSON"
    /\ UNCHANGED <<DefaultFormat, DefaultObfuscator, uid, format>>
    /\ UNCHANGED valueVars
    /\ UNCHANGED <<genVars, nullVars, dbVars>>

\* the texts tried that come from outside: "", "0", "1", "!", "-"
TextInputs == {<< >>, <<48>>, <<49>>, <<33>>, <<45>>}

\* the functions that take a text
ParseFns == {"ParseCrockford", "ParseBase58", "ParseBase64", "ParseHash",
             "ParseDecimal", "Parse"}

\* a Parse function is called on a text from outside and returns r
Given(fn, s, r) ==
    /\ text' = s
    /\ result' = r
    /\ stage' = fn
    /\ UNCHANGED <<DefaultFormat, DefaultObfuscator, uid, format>>
    /\ UNCHANGED valueVars
    /\ UNCHANGED <<genVars, nullVars, dbVars>>

\* ParseCrockford(s)
CallParseCrockford(s) ==
    /\ Startup /\ uid = Nil
    /\ Given("ParseCrockford", s, ParseCrockford(s))

\* ParseBase58(s)
CallParseBase58(s) ==
    /\ Startup /\ uid = Nil
    /\ Given("ParseBase58", s, ParseBase58(s))

\* ParseBase64(s)
CallParseBase64(s) ==
    /\ Startup /\ uid = Nil
    /\ Given("ParseBase64", s, ParseBase64(s))

\* ParseHash(s)
CallParseHash(s) ==
    /\ Startup /\ uid = Nil
    /\ Given("ParseHash", s, ParseHash(s))

\* ParseDecimal(s)
CallParseDecimal(s) ==
    /\ Startup /\ uid = Nil
    /\ Given("ParseDecimal", s, ParseDecimal(s))

\* Parse(s)
CallParse(s) ==
    /\ Startup /\ uid = Nil
    /\ Given("Parse", s, Parse(s))

\* Parse(text), which goes by DefaultFormat
ParseDefault ==
    /\ stage = "formatted"
    /\ result' = Parse(text)
    /\ stage' = "Parse"
    /\ UNCHANGED <<DefaultFormat, DefaultObfuscator, uid, format, text>>
    /\ UNCHANGED valueVars
    /\ UNCHANGED <<genVars, nullVars, dbVars>>

NextCodec ==
    \/ \E k \in KeyInputs : SetObfuscator(k)
    \/ \E f \in FormatInputs : SetDefaultFormat(f)
    \/ \E f \in Formats : FormatID(f)
    \/ ParseText
    \/ ParseDefault
    \/ \E s \in TextInputs : CallParseCrockford(s)
    \/ \E s \in TextInputs : CallParseBase58(s)
    \/ \E s \in TextInputs : CallParseBase64(s)
    \/ \E s \in TextInputs : CallParseHash(s)
    \/ \E s \in TextInputs : CallParseDecimal(s)
    \/ \E s \in TextInputs : CallParse(s)
    \/ CallMarshalJSON
    \/ \E b \in JSONInputs \cup {text} : CallUnmarshalJSON(b)
    \/ CallObfuscate
    \/ CallDeobfuscate
    \/ Callobfuscate
    \/ Calldeobfuscate
    \/ CallBytes
    \/ CallInt64
    \/ CallValue
    \/ CallMarshalBinary
    \/ \E b \in ByteInputs \cup {Bytes(uid)} : CallFromBytes(b)
    \/ \E b \in ByteInputs \cup {Bytes(uid)} : CallFromBytesOrNil(b)
    \/ CallNode
    \/ CallSeq
    \/ CallTimestamp

SpecCodec == InitCodec /\ [][NextCodec]_vars

(***************************************************************************)
(* The decoders are handed texts from outside: every single byte, and      *)
(* longer texts, long enough to exceed an int64, over a few bytes.         *)
(***************************************************************************)
\* the texts of at most n bytes over the bytes in a
Texts(a, n) == UNION {[1 .. k -> a] : k \in 0 .. n}

\* the number of base32 or base58 digits that exceeds an int64
MaxDigits == (WordBits \div 5) + 1

SingleBytes == {<<c>> : c \in 0 .. 255}

\* z Z - u L
CrockfordTexts == SingleBytes \cup Texts({122, 90, 45, 117, 76}, MaxDigits)
\* 1 2 z 0
Base58Texts == SingleBytes \cup Texts({49, 50, 122, 48}, MaxDigits)
\* 0 f F g
HexTexts == SingleBytes \cup Texts({48, 102, 70, 103}, 2 * WordBytes + 1)

\* crockford.Decode(s)
CallCrockfordDecode(s) ==
    /\ Startup /\ uid = Nil
    /\ Given("crockford.Decode", s, CrockfordDecode(s))

\* crockford.Encode(int64(uid))
CallCrockfordEncode ==
    /\ stage = "start"
    /\ text' = CrockfordEncode(uid)
    /\ stage' = "crockford.Encode"
    /\ UNCHANGED <<DefaultFormat, DefaultObfuscator, uid, format, result>>
    /\ UNCHANGED valueVars
    /\ UNCHANGED <<genVars, nullVars, dbVars>>

NextText ==
    \/ \E s \in CrockfordTexts : CallCrockfordDecode(s)
    \/ CallCrockfordEncode
    \/ \E s \in CrockfordTexts : CallParseCrockford(s)
    \/ \E s \in Base58Texts : CallParseBase58(s)
    \/ \E s \in HexTexts : CallParseHash(s)
    \/ \E f \in Formats : FormatID(f)
    \/ ParseText

SpecText == InitCodec /\ [][NextText]_vars

(***************************************************************************)
(* nullid.go: the methods of NullID are called on a NullID value, once the *)
(* format and the obfuscator are configured.                               *)
(***************************************************************************)
NullIDInputs == {0, 1, 5, MaxInt64, -1, ExampleID}
NullKeyInputs == {5, -1}

\* what Scan is handed: nil, an ID, an int64, bytes and strings that do and do
\* not parse, and a value of a type Scan does not know
SrcInputs ==
    {[kind |-> "nil", v |-> << >>], [kind |-> "other", v |-> << >>]}
        \cup {[kind |-> k, v |-> <<i>>] : k \in {"ID", "int64"}, i \in {0, 7, -1}}
        \cup {[kind |-> k, v |-> t] : k \in {"bytes", "string"},
                                      t \in {<< >>, <<49>>, <<33>>}}

\* what UnmarshalJSON is handed: null, the string "1", the number 1, and
\* malformed values
NullJSONInputs == {nullJSON, <<34, 49, 34>>, <<49>>, << >>, <<34>>, <<123, 125>>}

InitNull ==
    /\ NodeBits = DefaultNodeBits
    /\ SeqBits = DefaultSeqBits
    /\ gens = << [node      |-> 1,
                  state     |-> 0,
                  seqMask   |-> Int64(Pow2(DefaultSeqBits) - 1),
                  nodeShift |-> DefaultSeqBits,
                  timeShift |-> DefaultSeqBits + DefaultNodeBits] >>
    /\ DefaultGenerator = 1
    /\ clock = Epoch
    /\ pc = [t \in Threads |-> "idle"]
    /\ tg = [t \in Threads |-> 0]
    /\ now = [t \in Threads |-> 0]
    /\ old = [t \in Threads |-> 0]
    /\ seen = [t \in Threads |-> 0]
    /\ lastReader = 0
    /\ panicked = << >>
    /\ issued = EmptyBag
    /\ last = << << >> >>
    /\ spun = << FALSE >>
    /\ wins = 0
    /\ DefaultFormat = FormatBase58
    /\ DefaultObfuscator = << >>
    /\ uid = Nil
    /\ format = FormatBase58
    /\ text = << >>
    /\ result = NoResult
    /\ stage = "start"
    /\ out = NoOut
    /\ prev = NoPrev
    /\ nullid \in [ID : NullIDInputs, Valid : BOOLEAN]
    /\ reply = NoReply
    /\ db = NoDB
    /\ migrated = NoMigrate

\* a method of nullid returned: the NullID held then and the reply
Replied(n, r) ==
    /\ nullid' = n
    /\ reply' = r
    /\ UNCHANGED <<DefaultFormat, DefaultObfuscator, uid, format, text, result,
                   stage, out, prev>>
    /\ UNCHANGED <<genVars, dbVars>>

\* SetObfuscator and the assignment to DefaultFormat, before the NullID is used
StartupObfuscator(key) ==
    /\ reply = NoReply
    /\ SetObfuscator(key)

StartupFormat(f) ==
    /\ reply = NoReply
    /\ SetDefaultFormat(f)

CallNullIDValue ==
    /\ reply.op # "Value"
    /\ Replied(nullid, [op |-> "Value", src |-> NoSrc, b |-> << >>,
                        val |-> NullIDValue(nullid).val,
                        err |-> NullIDValue(nullid).err])

CallNullIDMarshalJSON ==
    /\ reply.op # "MarshalJSON"
    /\ Replied(nullid, [op |-> "MarshalJSON", src |-> NoSrc,
                        b |-> NullIDMarshalJSON(nullid).b, val |-> << >>,
                        err |-> NullIDMarshalJSON(nullid).err])

CallNullIDScan(src) ==
    /\ src \in SrcInputs
    /\ Replied(NullIDScan(nullid, src).n,
               [op |-> "Scan", src |-> src, b |-> << >>, val |-> << >>,
                err |-> NullIDScan(nullid, src).err])

CallNullIDUnmarshalJSON(b) ==
    /\ b \in NullJSONInputs \/ (reply.op = "MarshalJSON" /\ b = reply.b)
    /\ Replied(NullIDUnmarshalJSON(nullid, b).n,
               [op |-> "UnmarshalJSON", src |-> [kind |-> "json", v |-> b],
                b |-> << >>, val |-> << >>,
                err |-> NullIDUnmarshalJSON(nullid, b).err])

CallNullIDUnmarshalText(b) ==
    /\ b \in TextInputs
    /\ Replied(NullIDUnmarshalText(nullid, b).n,
               [op |-> "UnmarshalText", src |-> [kind |-> "text", v |-> b],
                b |-> << >>, val |-> << >>,
                err |-> NullIDUnmarshalText(nullid, b).err])

NextNull ==
    \/ \E k \in NullKeyInputs : StartupObfuscator(k)
    \/ \E f \in FormatInputs : StartupFormat(f)
    \/ CallNullIDValue
    \/ CallNullIDMarshalJSON
    \/ \E src \in SrcInputs : CallNullIDScan(src)
    \/ \E b \in NullJSONInputs \cup {reply.b} : CallNullIDUnmarshalJSON(b)
    \/ \E b \in TextInputs : CallNullIDUnmarshalText(b)

SpecNull == InitNull /\ [][NextNull]_vars

(***************************************************************************)
(* usid.go: the decoding methods are called on a receiver that holds uid.  *)
(***************************************************************************)
DecodeOps == {"id.UnmarshalJSON", "id.UnmarshalText", "id.UnmarshalBinary",
              "id.GobDecode", "id.Scan", "id.Parse"}

\* a decoding method was handed input and returned r: the receiver holds r.id
Decoded(op, input, r) ==
    /\ uid' = r.id
    /\ text' = input
    /\ result' = r
    /\ stage' = op
    /\ UNCHANGED <<DefaultFormat, DefaultObfuscator, format>>
    /\ UNCHANGED valueVars
    /\ UNCHANGED <<genVars, nullVars, dbVars>>

DecodeJSON(b) ==
    /\ Startup
    /\ Decoded("id.UnmarshalJSON", b, UnmarshalJSON(uid, b))

DecodeText(b) ==
    /\ Startup
    /\ Decoded("id.UnmarshalText", b, UnmarshalText(uid, b))

DecodeBinary(data) ==
    /\ Startup
    /\ Decoded("id.UnmarshalBinary", data, UnmarshalBinary(uid, data))

DecodeGob(data) ==
    /\ Startup
    /\ Decoded("id.GobDecode", data, GobDecode(uid, data))

DecodeScan(src) ==
    /\ Startup
    /\ Decoded("id.Scan", src.v, Scan(uid, src))

DecodeParse(str) ==
    /\ Startup
    /\ Decoded("id.Parse", str, ID_Parse(uid, str))

NextDecode ==
    \/ \E f \in FormatInputs : SetDefaultFormat(f)
    \/ \E b \in NullJSONInputs : DecodeJSON(b)
    \/ \E b \in TextInputs : DecodeText(b)
    \/ \E b \in ByteInputs : DecodeBinary(b)
    \/ \E b \in ByteInputs : DecodeGob(b)
    \/ \E src \in SrcInputs : DecodeScan(src)
    \/ \E str \in TextInputs : DecodeParse(str)

SpecDecode == InitCodec /\ [][NextDecode]_vars

(***************************************************************************)
(* usid.go: the accessors are called on IDs packed from a timestamp, a     *)
(* node and a sequence number, under each layout.                          *)
(***************************************************************************)
\* the timestamps that fit the timestamp field under nb and sb, and those tried
MaxTime(nb, sb) == Pow2(WordBits - 1 - nb - sb) - 1
TimeInputs(nb, sb) ==
    {t \in (0 .. MaxStamp) \cup {MaxTime(nb, sb) - k : k \in 0 .. MaxStamp} :
        t >= 0 /\ t <= MaxTime(nb, sb)}

\* the layouts the accessors are tried under: the widths vary independently
FieldLayouts == (1 .. (DefaultNodeBits + DefaultSeqBits)) \X
                (1 .. (DefaultNodeBits + DefaultSeqBits))

\* the raw value with timestamp t, node n and sequence number q
Packed(t, n, q, nb, sb) == t * Pow2(nb + sb) + n * Pow2(sb) + q

InitFields ==
    /\ \E l \in FieldLayouts : NodeBits = l[1] /\ SeqBits = l[2]
    /\ gens = << [node      |-> 1,
                  state     |-> 0,
                  seqMask   |-> Int64(Pow2(DefaultSeqBits) - 1),
                  nodeShift |-> DefaultSeqBits,
                  timeShift |-> DefaultSeqBits + DefaultNodeBits] >>
    /\ DefaultGenerator = 1
    /\ clock = Epoch
    /\ pc = [t \in Threads |-> "idle"]
    /\ tg = [t \in Threads |-> 0]
    /\ now = [t \in Threads |-> 0]
    /\ old = [t \in Threads |-> 0]
    /\ seen = [t \in Threads |-> 0]
    /\ lastReader = 0
    /\ panicked = << >>
    /\ issued = EmptyBag
    /\ last = << << >> >>
    /\ spun = << FALSE >>
    /\ wins = 0
    /\ DefaultFormat = FormatBase58
    /\ DefaultObfuscator = << >>
    /\ uid \in {Packed(t, n, q, NodeBits, SeqBits) :
                   t \in TimeInputs(NodeBits, SeqBits),
                   n \in 0 .. (Pow2(NodeBits) - 1),
                   q \in 0 .. (Pow2(SeqBits) - 1)}
    /\ format = FormatBase58
    /\ text = << >>
    /\ result = NoResult
    /\ stage = "start"
    /\ out = NoOut
    /\ prev = NoPrev
    /\ nullid = NoNullID
    /\ reply = NoReply
    /\ db = NoDB
    /\ migrated = NoMigrate

NextFields ==
    \/ CallNode
    \/ CallSeq
    \/ CallTimestamp

SpecFields == InitFields /\ [][NextFields]_vars

(***************************************************************************)
(* postgres: Migrate is called, one call after the other, on a database    *)
(* that executes every statement.                                          *)
(***************************************************************************)
\* postgres.Config values: DefaultConfig() and those differing in each field
Configs == [Epoch : {Epoch, Epoch + 1},
            NodeBits : {DefaultNodeBits, DefaultNodeBits + 1},
            SeqBits : {DefaultSeqBits, DefaultSeqBits + 1}]

\* the epoch is not compared
Mismatch_IgnoresEpoch(stored, cfg) ==
    stored.NodeBits # cfg.NodeBits \/ stored.SeqBits # cfg.SeqBits

\* Migrate: the stored row does not match the application's config
Mismatch(stored, cfg) ==
    stored.Epoch # cfg.Epoch \/ stored.NodeBits # cfg.NodeBits
        \/ stored.SeqBits # cfg.SeqBits

\* Migrate(ctx, db, cfg): CREATE TABLE IF NOT EXISTS, then the stored row is
\* checked or cfg is inserted, then the generated SQL is run
Migrate(cfg) ==
    /\ migrated.calls < MaxMigrations
    /\ IF db.config # << >> /\ Mismatch(db.config[1], cfg)
       THEN /\ db' = [db EXCEPT !.table = TRUE]
            /\ migrated' = [migrated EXCEPT !.calls = @ + 1, !.cfg = <<cfg>>,
                                            !.err = "ErrConfigMismatch"]
       ELSE /\ db' = [table |-> TRUE, config |-> <<cfg>>, functions |-> <<cfg>>,
                      installs |-> db.installs + 1]
            /\ migrated' = [calls |-> migrated.calls + 1, cfg |-> <<cfg>>,
                            err |-> "nil",
                            first |-> IF migrated.first = << >> THEN <<cfg>>
                                      ELSE migrated.first]
    /\ UNCHANGED <<DefaultFormat, DefaultObfuscator, uid, format, text, result,
                   stage, out, prev>>
    /\ UNCHANGED <<genVars, nullVars>>

InitMigrate ==
    /\ NodeBits = DefaultNodeBits
    /\ SeqBits = DefaultSeqBits
    /\ gens = << [node      |-> 1,
                  state     |-> 0,
                  seqMask   |-> Int64(Pow2(DefaultSeqBits) - 1),
                  nodeShift |-> DefaultSeqBits,
                  timeShift |-> DefaultSeqBits + DefaultNodeBits] >>
    /\ DefaultGenerator = 1
    /\ clock = Epoch
    /\ pc = [t \in Threads |-> "idle"]
    /\ tg = [t \in Threads |-> 0]
    /\ now = [t \in Threads |-> 0]
    /\ old = [t \in Threads |-> 0]
    /\ seen = [t \in Threads |-> 0]
    /\ lastReader = 0
    /\ panicked = << >>
    /\ issued = EmptyBag
    /\ last = << << >> >>
    /\ spun = << FALSE >>
    /\ wins = 0
    /\ DefaultFormat = FormatBase58
    /\ DefaultObfuscator = << >>
    /\ uid = Nil
    /\ format = FormatBase58
    /\ text = << >>
    /\ result = NoResult
    /\ stage = "start"
    /\ out = NoOut
    /\ prev = NoPrev
    /\ nullid = NoNullID
    /\ reply = NoReply
    /\ db = NoDB
    /\ migrated = NoMigrate

NextMigrate == \E cfg \in Configs : Migrate(cfg)

SpecMigrate == InitMigrate /\ [][NextMigrate]_vars

(***************************************************************************)
(* generator.go: Generate on one Generator at the ends of the clock's      *)
(* range: before and at the epoch, and at the largest timestamp that fits. *)
(***************************************************************************)
EdgeClocks == {Epoch - 1, Epoch,
               Epoch + MaxTime(DefaultNodeBits, DefaultSeqBits)}

InitEdge ==
    /\ \E l \in Layouts : NodeBits = l[1] /\ SeqBits = l[2]
    /\ \/ gens = << [node      |-> 1,
                     state     |-> 0,
                     seqMask   |-> Int64(Pow2(DefaultSeqBits) - 1),
                     nodeShift |-> DefaultSeqBits,
                     timeShift |-> DefaultSeqBits + DefaultNodeBits] >>
       \/ \E n \in 0 .. NodeMax : gens = << Generator(n) >>
    /\ DefaultGenerator = 1
    /\ clock \in EdgeClocks
    /\ pc = [t \in Threads |-> "idle"]
    /\ tg = [t \in Threads |-> 0]
    /\ now = [t \in Threads |-> 0]
    /\ old = [t \in Threads |-> 0]
    /\ seen = [t \in Threads |-> 0]
    /\ lastReader = 0
    /\ panicked = << >>
    /\ issued = EmptyBag
    /\ last = << << >> >>
    /\ spun = << FALSE >>
    /\ wins = 0
    /\ DefaultFormat = FormatBase58
    /\ DefaultObfuscator = << >>
    /\ uid = Nil
    /\ format = FormatBase58
    /\ text = << >>
    /\ result = NoResult
    /\ stage = "start"
    /\ out = NoOut
    /\ prev = NoPrev
    /\ nullid = NoNullID
    /\ reply = NoReply
    /\ db = NoDB
    /\ migrated = NoMigrate

NextEdge ==
    \/ \E t \in Threads : New(t)
    \/ \E t \in Threads : ReadClock(t)
    \/ \E t \in Threads : Load(t)
    \/ \E t \in Threads : Spin(t)
    \/ \E t \in Threads : CasOk(t)
    \/ \E t \in Threads : CasFail(t)
    \/ \E c \in EdgeClocks : Tick(c)

SpecEdge == InitEdge /\ [][NextEdge]_vars

(***************************************************************************)
(* Properties of the generator.                                            *)
(***************************************************************************)
Recs == BagToSet(issued)
GenIds == 1 .. Len(gens)

\* the layout a Generator was constructed under
GenSeqBits(g) == gens[g].nodeShift
GenNodeBits(g) == gens[g].timeShift - gens[g].nodeShift

\* the fields an identifier of Generator g carries
CarriedTime(r) == FieldTime(r.id, GenNodeBits(r.gen), GenSeqBits(r.gen))
CarriedSeq(r) == FieldSeq(r.id, GenSeqBits(r.gen))
CarriedNode(r) == FieldNode(r.id, GenNodeBits(r.gen), GenSeqBits(r.gen))

\* C1: the identifiers one Generator returns, under every interleaving of
\* the callers' clock reads, loads and compare-and-swaps, are pairwise
\* distinct, and no two of them carry the same (timestamp, seq) pair.
C1_Unique ==
    /\ \A r \in Recs : issued[r] = 1
    /\ \A r1, r2 \in Recs :
         (r1.gen = r2.gen /\ r1 # r2) =>
            /\ r1.id # r2.id
            /\ <<CarriedTime(r1), CarriedSeq(r1)>> # <<CarriedTime(r2), CarriedSeq(r2)>>

\* two identifiers of one Generator in the same timestamp bucket
C1_Witness ==
    \E r1, r2 \in Recs :
        r1.gen = r2.gen /\ r1 # r2 /\ CarriedTime(r1) = CarriedTime(r2)

\* C2: in order of completion, the Timestamp() of the identifiers one
\* Generator returns never decreases, also when the clock goes backward.
C2_Monotonic ==
    [][\A g \in GenIds :
          (last[g] # << >> /\ last'[g] # << >>) =>
              Timestamp(last'[g][1]) >= Timestamp(last[g][1])]_vars

\* a Generator has returned an identifier whose timestamp is ahead of the clock
C2_Witness ==
    \E g \in GenIds :
        /\ Wins(g) >= 2
        /\ last[g] # << >>
        /\ Timestamp(last[g][1]) > clock

\* C3: two Generators with distinct node values never return the same
\* identifier.
C3_DistinctNodes ==
    \A r1, r2 \in Recs :
        (r1.gen # r2.gen /\ gens[r1.gen].node # gens[r2.gen].node) => r1.id # r2.id

\* C3, for Generators constructed under the same layout
SameLayout(g1, g2) ==
    /\ gens[g1].nodeShift = gens[g2].nodeShift
    /\ gens[g1].timeShift = gens[g2].timeShift

C3_DistinctNodesSameLayout ==
    \A r1, r2 \in Recs :
        (/\ r1.gen # r2.gen
         /\ gens[r1.gen].node # gens[r2.gen].node
         /\ SameLayout(r1.gen, r2.gen)) => r1.id # r2.id

\* two Generators with distinct nodes returned identifiers with the same
\* timestamp and sequence number
C3_Witness ==
    \E r1, r2 \in Recs :
        /\ r1.gen # r2.gen
        /\ gens[r1.gen].node # gens[r2.gen].node
        /\ SameLayout(r1.gen, r2.gen)
        /\ r1.time = r2.time
        /\ r1.seq = r2.seq

\* C4 as stated: under fair scheduling and an advancing clock, every call to
\* Generate() eventually returns, each of several concurrent calls included.
C4_EveryCallReturns ==
    \A t \in Threads : (pc[t] # "idle") ~> (pc[t] = "idle")

\* C4: under fair scheduling and an advancing clock, while a call to
\* Generate() is in flight some call eventually returns an identifier.
C4_SomeCallReturns ==
    \A b \in {0, 1} :
        ((\E t \in Threads : pc[t] # "idle") /\ wins = b) ~> (wins # b)

\* a call is retrying after another call has returned
C4_Witness ==
    /\ wins = 1
    /\ \E t \in Threads : pc[t] = "read"

\* an iteration of call t that finds the sequence of its bucket exhausted
SpinCase(t) ==
    /\ pc[t] = "load"
    /\ now[t] <= WordTime(gens[tg[t]].state)
    /\ WordSeq(gens[tg[t]].state, tg[t]) = gens[tg[t]].seqMask

\* such an iteration returns nothing, keeps the word and goes round the loop
SpinKeepsWord ==
    \A t \in Threads :
        (SpinCase(t) /\ pc'[t] # "load") =>
            (gens' = gens /\ issued' = issued /\ pc'[t] = "read")

\* a call on g is in flight with a clock reading above the recorded timestamp
HighInFlight(g) ==
    \E t \in Threads :
        /\ tg[t] = g
        /\ pc[t] \in {"load", "cas"}
        /\ now[t] > WordTime(gens[g].state)

\* C5: an iteration that reads now <= oldTime with the sequence at seqMask
\* returns nothing and keeps the word; from then on, while no clock reading
\* exceeds oldTime, no call on that Generator returns.
C5_SpinOriginal ==
    [][/\ SpinKeepsWord
       /\ \A g \in GenIds : spun[g] => Wins(g)' = Wins(g)]_vars

\* the sequence of the bucket Generator g is in is exhausted
ExhaustedBucket(g) == WordSeq(gens[g].state, g) = gens[g].seqMask

\* C5, amended: ... while the clock readings in use, those taken earlier by
\* calls still in flight included, do not exceed oldTime, no call on that
\* Generator returns.
C5_Spin ==
    [][/\ SpinKeepsWord
       /\ \A g \in GenIds :
             (ExhaustedBucket(g) /\ ~HighInFlight(g)) => Wins(g)' = Wins(g)]_vars

\* a call is spinning on an exhausted bucket
C5_Witness ==
    \E t \in Threads : pc[t] = "read" /\ spun[tg[t]] /\ ~HighInFlight(tg[t])

\* C6: a compare-and-swap fails only if another call on the same Generator
\* did a successful compare-and-swap since this call's load.
C6_LockFree ==
    \A t \in Threads :
        (pc[t] = "cas" /\ gens[tg[t]].state # old[t]) => Wins(tg[t]) > seen[t]

\* a call whose compare-and-swap is about to fail
C6_Witness ==
    \E t \in Threads : pc[t] = "cas" /\ gens[tg[t]].state # old[t]

\* C7: every identifier a Generator built with node n returns decodes,
\* under the layout of its construction, to that node, to the sequence number
\* of the winning swap, which is within the sequence mask, and to the
\* timestamp of that swap.
C7_Decodes ==
    \A r \in Recs :
        /\ CarriedNode(r) = gens[r.gen].node
        /\ CarriedSeq(r) = r.seq
        /\ r.seq \in 0 .. (Pow2(GenSeqBits(r.gen)) - 1)
        /\ CarriedTime(r) = r.time

\* an identifier with a non-zero timestamp and a non-zero sequence number
C7_Witness ==
    \E r \in Recs : r.time > 0 /\ r.seq > 0

\* C8: once NodeBits and SeqBits are changed before any ID is generated,
\* every ID of New() decodes under the new layout to the default generator's
\* node, the sequence number of its bucket and the time of its generation.
Tuned == <<NodeBits, SeqBits>> # <<DefaultNodeBits, DefaultSeqBits>>

C8_TunedNewDecodes ==
    Tuned =>
        \A r \in IssuedBy(DefaultGenerator) :
            /\ Node(r.id) = gens[DefaultGenerator].node
            /\ IDSeq(r.id) = r.seq
            /\ IDSeq(r.id) \in 0 .. (Pow2(SeqBits) - 1)
            /\ Timestamp(r.id) = r.time + Epoch

\* C9: NewGenerator(node) panics exactly when node is outside
\* [0, 2^NodeBits - 1], and the Generator it returns has a zero word.
C9_NewGenerator ==
    /\ panicked # << >> => (panicked[1] < 0 \/ panicked[1] > Pow2(NodeBits) - 1)
    /\ \A g \in GenIds :
          /\ gens[g].node \in 0 .. (Pow2(GenNodeBits(g)) - 1)
          /\ Wins(g) = 0 => gens[g].state = 0

\* a call of NewGenerator has panicked after another one returned a Generator
C9_Witness ==
    panicked # << >> /\ Len(gens) > 1

(***************************************************************************)
(* Properties of the text formats.                                         *)
(***************************************************************************)
\* C10: with no obfuscator, in each of the five formats, a non-negative ID
\* that is formatted and parsed back by the matching Parse function comes
\* back unchanged and without error; 0 is "0" in Crockford and "1" in base58.
C10_RoundTrip ==
    (DefaultObfuscator = << >> /\ uid >= 0) =>
        /\ stage = "parsed" => result = [id |-> uid, err |-> "nil"]
        /\ (stage \in {"formatted", "parsed"} /\ uid = 0 /\ format = FormatCrockford) => text = <<48>>
        /\ (stage \in {"formatted", "parsed"} /\ uid = 0 /\ format = FormatBase58) => text = <<49>>

\* the largest ID has been formatted in base64 and parsed back
C10_Witness ==
    /\ DefaultObfuscator = << >>
    /\ uid = MaxInt64
    /\ format = FormatBase64
    /\ stage = "parsed"
    /\ result.err = "nil"

\* C11: with an obfuscator of any key, a generated ID formatted in a format F
\* is a non-empty text that Parse, with DefaultFormat = F, turns back into the
\* ID without error.
C11_ObfuscatedRoundTrip ==
    (/\ stage = "Parse"
     /\ DefaultObfuscator # << >>
     /\ DefaultFormat = format
     /\ uid > 0) =>
        /\ text # << >>
        /\ result = [id |-> uid, err |-> "nil"]

\* C12: Obfuscate(x) is x XOR K, which differs from x whenever K # 0, and
\* Deobfuscate gives x back; with no DefaultObfuscator, obfuscate and
\* deobfuscate return their argument.
C12_Involution ==
    /\ out.op = "Obfuscate" =>
           /\ out.val = Int64(Uint64(Or(out.arg, out.key[1]) - And(out.arg, out.key[1])))
           /\ out.key[1] # 0 => out.val # out.arg
    /\ (out.op = "Deobfuscate" /\ ~out.rekeyed) => out.val = prev.arg
    /\ (out.op \in {"obfuscate", "deobfuscate"} /\ out.key = << >>) => out.val = out.arg
    /\ (out.op = "deobfuscate" /\ ~out.rekeyed) => out.val = prev.arg

\* an ID was obfuscated into a different one under a key with the sign bit
\* set, and deobfuscated
C12_Witness ==
    /\ out.op = "Deobfuscate"
    /\ ~out.rekeyed
    /\ out.key[1] < 0
    /\ out.arg # out.val
    /\ out.val = uid

\* C13: Bytes, Int64, Value, MarshalBinary, FromBytes, Node, Seq and Timestamp
\* return the same for the same ID whatever obfuscation key is configured, or
\* none.
C13_KeyIndependent ==
    (/\ out.op \in BinaryOps
     /\ prev.op = out.op
     /\ prev.arg = out.arg) => out.val = prev.val

\* Bytes was called on an ID under one key and again under another
C13_Witness ==
    /\ out.op = "Bytes"
    /\ prev.op = "Bytes"
    /\ out.key # << >>
    /\ out.rekeyed
    /\ uid > 0

\* C14 as stated: UnmarshalJSON of a bare JSON integer n sets the ID to n, for
\* every DefaultFormat and whether or not an obfuscator is configured.
C14_NumberIsRaw ==
    (stage = "UnmarshalJSON" /\ text = FormatInt(uid)) =>
        result = [id |-> uid, err |-> "nil"]

\* C14: UnmarshalJSON of a bare JSON integer n sets the ID, for every
\* DefaultFormat, to n when no obfuscator is configured and to n XOR K under
\* the key K.
C14_NumberIsDeobfuscated ==
    (stage = "UnmarshalJSON" /\ text = FormatInt(uid)) =>
        /\ result.err = "nil"
        /\ DefaultObfuscator = << >> => result.id = uid
        /\ DefaultObfuscator # << >> =>
               result.id = Int64(Uint64(Or(uid, DefaultObfuscator[1])
                                        - And(uid, DefaultObfuscator[1])))

\* a number was decoded under a key and under a DefaultFormat in which its
\* digits are text of another value
C14_Witness ==
    /\ stage = "UnmarshalJSON"
    /\ text = FormatInt(uid)
    /\ uid > 9
    /\ DefaultFormat = FormatHash
    /\ DefaultObfuscator = <<5>>
    /\ result.id # uid

\* C15: MarshalJSON returns the ID's text in DefaultFormat (Crockford when
\* DefaultFormat is not one of the five) between double quotes, and
\* UnmarshalJSON of that output gives the ID back, for every non-negative ID
\* and every DefaultFormat.
C15_JSONRoundTrip ==
    uid >= 0 =>
        /\ stage = "MarshalJSON" =>
               /\ Len(text) >= 2
               /\ text[1] = 34
               /\ text[Len(text)] = 34
               /\ SubSeq(text, 2, Len(text) - 1) =
                      Format(uid, IF DefaultFormat \in Formats THEN DefaultFormat
                                  ELSE FormatCrockford)
        /\ (stage = "UnmarshalJSON" /\ text = MarshalJSON(uid).b) =>
               result = [id |-> uid, err |-> "nil"]

\* C16: ParseCrockford, ParseBase58, ParseBase64, ParseHash, ParseDecimal and
\* Parse, under every DefaultFormat, return an error and the Nil ID for the
\* empty string.
C16_EmptyRejected ==
    (stage \in ParseFns /\ text = << >>) =>
        /\ result.err # "nil"
        /\ result.id = Nil

\* Parse was given the empty string under an unrecognised DefaultFormat and
\* an obfuscator
C16_Witness ==
    /\ stage = "Parse"
    /\ DefaultFormat \notin Formats
    /\ DefaultObfuscator # << >>
    /\ text = << >>
    /\ result.err = "empty string"

\* the unsigned number a byte slice spells, most significant byte first
RECURSIVE BytesValue(_, _)
BytesValue(b, k) ==
    IF k = 0 THEN 0 ELSE b[k] * (256 ^ (Len(b) - k)) + BytesValue(b, k - 1)

BytesAreBigEndian ==
    out.op = "Bytes" =>
        /\ Len(out.val) = WordBytes
        /\ \A k \in 1 .. WordBytes : out.val[k] \in 0 .. 255
        /\ BytesValue(out.val, WordBytes) = (IF uid < 0 THEN uid + 2 ^ WordBits ELSE uid)
        /\ uid = ExampleID => out.val = [k \in 1 .. WordBytes |-> 17 * k]

FromBytesInverts ==
    out.op = "FromBytes" =>
        /\ out.val.err # "nil" <=> Len(out.arg) # WordBytes
        /\ out.arg = Bytes(uid) => out.val = [id |-> uid, err |-> "nil"]

\* C17 as stated: Bytes() is the big-endian two's complement value on exactly
\* as many bytes as an ID has, FromBytes(Bytes(id)) is id, and FromBytes
\* returns an error, and FromBytesOrNil returns Nil, exactly when the input has
\* another length.
C17_BytesOriginal ==
    /\ BytesAreBigEndian
    /\ FromBytesInverts
    /\ out.op = "FromBytesOrNil" => (out.val = Nil <=> Len(out.arg) # WordBytes)

\* C17: Bytes() is the big-endian two's complement value on exactly as many
\* bytes as an ID has, FromBytes(Bytes(id)) is id, FromBytes returns an error
\* exactly when the input has another length, and FromBytesOrNil returns Nil
\* then and otherwise the ID the bytes spell (Nil for zero bytes only).
C17_Bytes ==
    /\ BytesAreBigEndian
    /\ FromBytesInverts
    /\ out.op = "FromBytesOrNil" =>
           /\ Len(out.arg) # WordBytes => out.val = Nil
           /\ Len(out.arg) = WordBytes =>
                  /\ Uint64(out.val) = BytesValue(out.arg, WordBytes)
                  /\ out.val = Nil <=> \A k \in 1 .. WordBytes : out.arg[k] = 0

\* FromBytesOrNil was given the bytes of a negative ID and returned it
C17_Witness ==
    /\ out.op = "FromBytesOrNil"
    /\ uid < 0
    /\ out.arg = Bytes(uid)
    /\ out.val = uid

\* C18: the ID with raw value (T << (NodeBits + SeqBits)) | (N << SeqBits) | S,
\* T >= 0 fitting the timestamp field, N below 2^NodeBits and S below
\* 2^SeqBits, has Node() = N, Seq() = S and Timestamp() = T + Epoch
\* microseconds.
C18_Fields ==
    \A t \in TimeInputs(NodeBits, SeqBits),
       n \in 0 .. (Pow2(NodeBits) - 1),
       q \in 0 .. (Pow2(SeqBits) - 1) :
        uid = Packed(t, n, q, NodeBits, SeqBits) =>
            /\ out.op = "Node" => out.val = n
            /\ out.op = "Seq" => out.val = q
            /\ out.op = "Timestamp" => out.val = t + Epoch

\* Node() was called on an ID with the largest timestamp, a node above 0 and
\* the largest sequence number
C18_Witness ==
    /\ out.op = "Node"
    /\ out.val > 0
    /\ uid = Packed(MaxTime(NodeBits, SeqBits), out.val, Pow2(SeqBits) - 1,
                    NodeBits, SeqBits)

\* C19: for a NullID n, MarshalJSON returns null iff n.Valid is false and
\* otherwise what the inner ID's MarshalJSON returns; Value returns nil iff
\* n.Valid is false and otherwise the inner raw int64; UnmarshalJSON(null) and
\* Scan(nil) leave n = {Nil, Valid = false}; a decode of a non-null value that
\* succeeds leaves Valid = true.
C19_NullID ==
    /\ reply.op = "MarshalJSON" =>
           /\ reply.b = nullJSON <=> ~nullid.Valid
           /\ nullid.Valid =>
                  /\ reply.b = <<34>> \o Format(nullid.ID, DefaultFormat) \o <<34>>
                  /\ reply.err = "nil"
    /\ reply.op = "Value" =>
           /\ reply.val = << >> <=> ~nullid.Valid
           /\ nullid.Valid => reply.val = <<nullid.ID>>
    /\ reply.op = "UnmarshalJSON" /\ reply.src.v = nullJSON =>
           nullid = [ID |-> Nil, Valid |-> FALSE]
    /\ reply.op = "Scan" /\ reply.src.kind = "nil" =>
           nullid = [ID |-> Nil, Valid |-> FALSE]
    /\ /\ reply.op = "UnmarshalJSON"
       /\ reply.src.v # nullJSON
       /\ reply.err = "nil"
       => nullid.Valid
    /\ /\ reply.op = "Scan"
       /\ reply.src.kind # "nil"
       /\ reply.err = "nil"
       => nullid.Valid

\* MarshalJSON was called on a valid NullID under an obfuscator and returned a
\* JSON string other than null
C19_Witness ==
    /\ reply.op = "MarshalJSON"
    /\ nullid.Valid
    /\ nullid.ID # Nil
    /\ DefaultObfuscator # << >>
    /\ Len(reply.b) > 2

\* C20: under the default configuration (DefaultFormat as declared, no
\* obfuscator), NullID{Valid: true, ID: Nil}.MarshalJSON() returns the JSON
\* string "0" and no error.
C20_NilMarshalsZero ==
    /\ reply.op = "MarshalJSON"
    /\ stage = "start"
    /\ DefaultObfuscator = << >>
    /\ nullid = [ID |-> Nil, Valid |-> TRUE]
    => /\ reply.b = <<34, 48, 34>>
       /\ reply.err = "nil"

\* the bytes Crockford decoding takes for a digit, and those of the 32-symbol
\* lower-case alphabet
CrockfordAccepted == ((48 .. 57) \cup (65 .. 90) \cup (97 .. 122)) \ {85, 117}
CrockfordAlphabet == ((48 .. 57) \cup (97 .. 122)) \ {105, 108, 111, 117}

UpperCase(s) == [k \in 1 .. Len(s) |-> IF s[k] \in 97 .. 122 THEN s[k] - 32 ELSE s[k]]
LowerCase(s) == [k \in 1 .. Len(s) |-> IF s[k] \in 65 .. 90 THEN s[k] + 32 ELSE s[k]]
NoHyphens(s) == SelectSeq(s, LAMBDA c : c # 45)

\* C21: Crockford decoding gives the same for a text and for its upper- and
\* lower-cased forms, takes i, I, l and L for 1 and o and O for 0, skips
\* hyphens, and returns an error for every other byte outside the alphabet,
\* u, U and the bytes from 128 included; Crockford encoding emits only the 32
\* lower-case symbols of the alphabet.
C21_Crockford ==
    /\ stage = "crockford.Decode" =>
           /\ result = CrockfordDecode(UpperCase(text))
           /\ result = CrockfordDecode(LowerCase(text))
           /\ result = CrockfordDecode(NoHyphens(text))
           /\ text \in {<<73>>, <<105>>, <<76>>, <<108>>} =>
                  result = [id |-> 1, err |-> "nil"]
           /\ text \in {<<79>>, <<111>>} => result = [id |-> 0, err |-> "nil"]
           /\ result.err # "nil" <=>
                  \E k \in 1 .. Len(text) :
                      text[k] # 45 /\ text[k] \notin CrockfordAccepted
    /\ stage = "crockford.Encode" =>
           \A k \in 1 .. Len(text) : text[k] \in CrockfordAlphabet

\* a text in upper case with a hyphen in it was decoded to a value above 0
C21_Witness ==
    /\ stage = "crockford.Decode"
    /\ Len(text) > 2
    /\ \E k \in 1 .. Len(text) : text[k] = 45
    /\ \E k \in 1 .. Len(text) : text[k] = 90
    /\ result.err = "nil"
    /\ result.id > 0

\* the value of the hexadecimal digit c
HexDigit(c) ==
    IF c \in 48 .. 57 THEN c - 48
    ELSE IF c \in 97 .. 102 THEN c - 87
    ELSE IF c \in 65 .. 70 THEN c - 55
    ELSE -1

\* the number the first k digits of s spell, most significant first
RECURSIVE Positional(_, _, _, _)
Positional(s, k, base, digit) ==
    IF k = 0 THEN 0 ELSE Positional(s, k - 1, base, digit) * base + digit[s[k]]

HexValue(s) == Positional(s, Len(s), 16, [c \in 0 .. 255 |-> HexDigit(c)])

\* C22: with no obfuscator, Format(FormatHash) of an int64 x, negative ones
\* included, is the lower-case hexadecimal of x as an unsigned value without
\* leading zeros, and ParseHash of it returns x; ParseHash accepts exactly the
\* texts of 1 to 16 hexadecimal digits in either case.
C22_Hash ==
    /\ (stage \in {"formatted", "parsed"} /\ format = FormatHash) =>
           /\ Len(text) >= 1
           /\ \A k \in 1 .. Len(text) : text[k] \in (48 .. 57) \cup (97 .. 102)
           /\ HexValue(text) = (IF uid < 0 THEN uid + 2 ^ WordBits ELSE uid)
           /\ Len(text) > 1 => text[1] # 48
    /\ (stage = "parsed" /\ format = FormatHash) =>
           result = [id |-> uid, err |-> "nil"]
    /\ stage = "ParseHash" =>
           /\ result.err = "nil" <=>
                  /\ Len(text) \in 1 .. (2 * WordBytes)
                  /\ \A k \in 1 .. Len(text) : HexDigit(text[k]) >= 0
           /\ result.err = "nil" =>
                  HexValue(text) =
                      (IF result.id < 0 THEN result.id + 2 ^ WordBits ELSE result.id)

\* a negative ID was formatted in hexadecimal, on as many digits as fit, and
\* parsed back
C22_Witness ==
    /\ stage = "parsed"
    /\ format = FormatHash
    /\ uid < 0
    /\ Len(text) = 2 * WordBytes
    /\ result.id = uid

\* the number the digits of a base58 text, and of a Crockford text without its
\* hyphens, spell
Base58Value(s) ==
    Positional(s, Len(s), 58, [c \in 0 .. 255 |-> IndexOf(base58Encode, c)])
CrockfordValue(s) ==
    Positional(NoHyphens(s), Len(NoHyphens(s)), 32,
               [c \in 0 .. 255 |-> IF c < 128 THEN crockfordDecode[c] ELSE -1])

\* C30: with no obfuscator, every text ParseBase58 or ParseCrockford accepts
\* yields a non-negative ID equal to the number its digits spell, most
\* significant first; digits that spell more than the largest int64 are not
\* accepted as another, wrapped-around ID.
C30_NoWrap ==
    (DefaultObfuscator = << >> /\ result.err = "nil") =>
        /\ stage = "ParseBase58" =>
               result.id >= 0 /\ result.id = Base58Value(text)
        /\ stage = "ParseCrockford" =>
               result.id >= 0 /\ result.id = CrockfordValue(text)

\* C23: after a first Migrate(cfg) that succeeded, every later Migrate(cfg)
\* succeeds and leaves cfg stored, and every later Migrate(cfg') with another
\* cfg' returns ErrConfigMismatch, leaves the stored config as it is and does
\* not install the SQL functions again.
C23_Migrate ==
    [][(migrated.first # << >> /\ migrated'.calls # migrated.calls) =>
          /\ db'.config = migrated.first
          /\ migrated'.cfg = migrated.first =>
                 migrated'.err = "nil"
          /\ migrated'.cfg # migrated.first =>
                 /\ migrated'.err = "ErrConfigMismatch"
                 /\ db'.config = db.config
                 /\ db'.functions = db.functions
                 /\ db'.installs = db.installs]_vars

\* after a Migrate that succeeded, one with another config was refused and
\* then one with the first config succeeded again
C23_Witness ==
    /\ migrated.calls = 3
    /\ db.installs = 2
    /\ migrated.cfg = migrated.first
    /\ migrated.err = "nil"

\* the word of Generator g changes in this step
WordChanges(g) == gens'[g].state # gens[g].state

\* a call on g does a successful compare-and-swap and returns in this step
SwapOn(g) ==
    \E t \in Threads :
        /\ pc[t] = "cas"
        /\ tg[t] = g
        /\ gens[g].state = old[t]
        /\ pc'[t] = "idle"

\* the fields a Generator never writes after its construction
Frozen(g) ==
    /\ gens'[g].node = gens[g].node
    /\ gens'[g].seqMask = gens[g].seqMask
    /\ gens'[g].nodeShift = gens[g].nodeShift
    /\ gens'[g].timeShift = gens[g].timeShift

\* the word grows as an unsigned value, by a successful compare-and-swap only
WordGrows(g) ==
    WordChanges(g) => (SwapOn(g) /\ Uint64(gens'[g].state) > Uint64(gens[g].state))

\* the timestamp grows and seq is 0, or the timestamp is kept and seq grows
\* by one, within seqMask
FieldsStep(g) ==
    WordChanges(g) =>
        /\ WordSeq(gens'[g].state, g) \in 0 .. gens[g].seqMask
        /\ \/ /\ WordTime(gens'[g].state) > WordTime(gens[g].state)
              /\ WordSeq(gens'[g].state, g) = 0
           \/ /\ WordTime(gens'[g].state) = WordTime(gens[g].state)
              /\ WordSeq(gens'[g].state, g) = WordSeq(gens[g].state, g) + 1

\* C24: the word of a Generator changes only by a successful compare-and-swap
\* in Generate(), and every change increases it as an unsigned value: the
\* timestamp grows and seq is reset to 0, or the timestamp is kept and seq
\* grows by exactly 1, never beyond seqMask; node, seqMask and the shifts are
\* never written after construction.
C24_WordSteps ==
    [][\A g \in GenIds : WordGrows(g) /\ FieldsStep(g) /\ Frozen(g)]_vars

\* call t does a successful compare-and-swap and returns in this step
Returns(t) ==
    /\ pc[t] = "cas"
    /\ gens[tg[t]].state = old[t]
    /\ pc'[t] = "idle"

\* the timestamp and the sequence number the identifier call t returns in
\* this step carries
ReturnedTime(t) == FieldTime(last'[tg[t]][1], GenNodeBits(tg[t]), GenSeqBits(tg[t]))
ReturnedSeq(t) == FieldSeq(last'[tg[t]][1], GenSeqBits(tg[t]))

\* C25: the timestamp of every identifier Generate() returns is the larger of
\* the clock reading now and the stored timestamp oldTime of the winning
\* iteration: with now <= oldTime it carries oldTime and seq = oldSeq + 1,
\* with now > oldTime it carries now and seq = 0; it is never below the clock
\* reading of that iteration.
C25_MaxOfNowAndOld ==
    [][\A t \in Threads :
          Returns(t) =>
              /\ now[t] <= WordTime(old[t]) =>
                     /\ ReturnedTime(t) = WordTime(old[t])
                     /\ ReturnedSeq(t) = WordSeq(old[t], tg[t]) + 1
              /\ now[t] > WordTime(old[t]) =>
                     /\ ReturnedTime(t) = now[t]
                     /\ ReturnedSeq(t) = 0
              /\ ReturnedTime(t) >= now[t]]_vars

\* a Generator has returned an identifier with a timestamp above a reading of
\* a clock that went back before the epoch
C25_Witness ==
    /\ clock < Epoch
    /\ \E r \in Recs : r.time > clock - Epoch /\ r.seq > 0 /\ r.time > 0

\* C26: Generate() returns neither Nil nor a negative value: for every node in
\* range, 0 included, every clock reading below the largest timestamp that
\* fits, readings at and before the epoch included, and every layout of the
\* default total width, the identifier is in [1, MaxInt64].
C26_Positive ==
    \A r \in Recs : r.id >= 1 /\ r.id <= MaxInt64

\* a Generator with node 0 returned an identifier for a clock reading before
\* the epoch, and one at the largest timestamp
C26_Witness ==
    /\ gens[1].node = 0
    /\ \E r \in Recs : r.time = 0 /\ r.seq = 1 /\ r.id = 1
    /\ \E r \in Recs : r.time = MaxTime(DefaultNodeBits, DefaultSeqBits)

\* C27: when UnmarshalJSON, UnmarshalText, UnmarshalBinary, GobDecode, Scan or
\* (*ID).Parse returns an error, the receiver holds the value it held before
\* the call.
C27_ErrorKeepsReceiver ==
    [][(stage' \in DecodeOps /\ result'.err # "nil") => uid' = uid]_vars

\* UnmarshalJSON returned an error on a receiver that holds the largest ID
C27_Witness ==
    /\ stage = "id.UnmarshalJSON"
    /\ result.err = "invalid JSON string"
    /\ uid = MaxInt64

\* the last call on nullid was a decode, and of a null value
Decode == reply.op \in {"Scan", "UnmarshalJSON", "UnmarshalText"}
NullInput ==
    \/ reply.op = "Scan" /\ reply.src.kind = "nil"
    \/ reply.op = "UnmarshalJSON" /\ reply.src.v = nullJSON
    \/ reply.op = "UnmarshalText" /\ reply.src.v = << >>

\* C28: after a decode of a NullID (Scan, UnmarshalJSON or UnmarshalText) that
\* returned an error, Valid is false; Valid is true only after a decode of a
\* non-null value that succeeded.
C28_ErrorInvalidates ==
    Decode =>
        /\ reply.err # "nil" => ~nullid.Valid
        /\ nullid.Valid => (reply.err = "nil" /\ ~NullInput)

\* C29: the identifiers New() returns are pairwise distinct, also when
\* SetNodeID is called again with the same node id between New() calls.
C29_NewUnique ==
    \A r1, r2 \in Recs : (r1.new /\ r2.new /\ r1 # r2) => r1.id # r2.id

====
